---- MODULE Spec2Model ----
(***************************************************************************)
(* Model of blendwatch's move correlator, MoveTrackingHandler              *)
(* (src/src/blendwatch/core/watcher.py).                                   *)
(*                                                                         *)
(* Paths are strings, modelled as sequences of one-character strings, so   *)
(* str.startswith, slicing, lstrip, Path.name, Path.parent, Path.suffix    *)
(* and re.search are computed the way the code computes them.  Time is a   *)
(* discrete clock `now` in seconds; a handler call reads the clock once.   *)
(* What a handler reads from the file system (stat sizes, the files found  *)
(* under a moved directory) is an input of the call.                       *)
(***************************************************************************)
EXTENDS Integers, Sequences, FiniteSets, TLC

VARIABLES
    now,                      \* time.time()
    move_events,              \* self.move_events
    pending_deletes,          \* self.pending_deletes (insertion-ordered dict)
    pending_creates,          \* self.pending_creates (insertion-ordered dict)
    recent_directory_moves,   \* self.recent_directory_moves (ordered dict)
    directory_processed_files,\* self.directory_processed_files (ordered dict)
    flushed,                  \* what the latest call returned to its caller
    calls,                    \* number of calls made on the handler so far
    last_call,                \* the latest call and its arguments
    tree,                     \* the files and directories notifications name
    raised,                   \* the exception the latest call let escape
    threads,                  \* calls in progress on concurrent threads
    index                     \* the FileIndex object and the disk it scans

vars == <<now, move_events, pending_deletes, pending_creates,
          recent_directory_moves, directory_processed_files, flushed, calls,
          last_call, tree, raised, threads, index>>

-----------------------------------------------------------------------------
(* Bound of the model: the number of calls made on the handler *)
MaxCalls == 3

(* Program constants; the clock counts in units of one second and the
   handler is built with event_correlation_timeout = 1.0 *)
Timeout == 1
ChainLookback == 10
DirMovesCap == 10
DirMovesSweepCap == 20
SizeTolerance == 1024

-----------------------------------------------------------------------------
(* Strings *)

RECURSIVE LastIndexOf(_, _)
LastIndexOf(s, c) ==
    IF s = <<>> THEN 0
    ELSE IF s[Len(s)] = c THEN Len(s)
    ELSE LastIndexOf(SubSeq(s, 1, Len(s) - 1), c)

StartsWith(s, pre) ==
    /\ Len(pre) <= Len(s)
    /\ SubSeq(s, 1, Len(pre)) = pre

EndsWith(s, suf) ==
    /\ Len(suf) <= Len(s)
    /\ SubSeq(s, Len(s) - Len(suf) + 1, Len(s)) = suf

Contains(s, pat) ==
    \E i \in 1..(Len(s) - Len(pat) + 1) : SubSeq(s, i, i + Len(pat) - 1) = pat

RECURSIVE LStripSep(_)
LStripSep(s) ==
    IF s # <<>> /\ s[1] = "/" THEN LStripSep(SubSeq(s, 2, Len(s))) ELSE s

SliceFrom(s, n) == SubSeq(s, n + 1, Len(s))

LowerChar(c) == IF c = "B" THEN "b" ELSE IF c = "T" THEN "t" ELSE c

Lower(s) == [i \in 1..Len(s) |-> LowerChar(s[i])]

(* pathlib *)
Name(p) == SubSeq(p, LastIndexOf(p, "/") + 1, Len(p))

Parent(p) ==
    LET i == LastIndexOf(p, "/")
    IN  IF i <= 1 THEN <<"/">> ELSE SubSeq(p, 1, i - 1)

Suffix(p) ==
    LET n == Name(p)
        i == LastIndexOf(n, ".")
    IN  IF i > 1 /\ i < Len(n) THEN SubSeq(n, i, Len(n)) ELSE <<>>

JoinPath(dir, rel) == dir \o <<"/">> \o rel

RelativeTo(p, base) == SliceFrom(p, Len(base) + 1)

IsUnder(p, dir) == StartsWith(p, dir \o <<"/">>)

-----------------------------------------------------------------------------
(* The watched tree and the handler's configuration *)

DirA == <<"/", "a">>
DirBA == <<"/", "b", "/", "a">>
NameX == <<"x", ".", "b">>
NameY == <<"y", ".", "b">>
NameN == <<"n", ".", "t">>
DirC == <<"/", "c">>

AX == JoinPath(DirA, NameX)
BX == JoinPath(DirBA, NameX)
AY == JoinPath(DirA, NameY)
AN == JoinPath(DirA, NameN)
BIX == JoinPath(JoinPath(DirBA, <<"i", "g">>), NameX)

CX == JoinPath(DirC, NameX)

(* files in directories whose names only begin like /a and /b/a *)
A2X == JoinPath(<<"/", "a", "2">>, NameX)
BA2X == JoinPath(<<"/", "b", "/", "a", "2">>, NameX)

(* files without an extension, as directories are *)
AM == JoinPath(DirA, <<"m">>)
BM == JoinPath(DirBA, <<"m">>)

ExtB == <<".", "b">>
PatIg == <<"i", "g">>
PatBad == <<"[">>

(* Parts of a watched tree, each with the time for which it is observed.
   TreeMoves has an untracked file and a file below an ignored directory;
   TreePairs has one file name in two directories and a second name with the
   same extension; TreeChain has one file name in three directories; all
   three are observed until the markers written at time 0 are no longer
   valid.  TreeDirMove has one file name in two directories and is observed
   until those markers have been swept and a pending entry stored after
   their validity has expired too. *)
TreeMoves ==
    [files |-> {AX, BX, AN, BIX}, dirs |-> {DirA, DirBA},
     horizon |-> 2 * Timeout,
     extensions |-> {ExtB}, ignore_patterns |-> <<PatIg>>]
TreePairs ==
    [files |-> {AX, BX, AY}, dirs |-> {DirA, DirBA}, horizon |-> 2 * Timeout,
     extensions |-> {ExtB}, ignore_patterns |-> <<PatIg>>]
TreeChain ==
    [files |-> {AX, BX, CX}, dirs |-> {DirA, DirBA}, horizon |-> 2 * Timeout,
     extensions |-> {ExtB}, ignore_patterns |-> <<PatIg>>]
TreeDirMove ==
    [files |-> {AX, BX}, dirs |-> {DirA, DirBA}, horizon |-> 4 * Timeout,
     extensions |-> {ExtB}, ignore_patterns |-> <<PatIg>>]
TreeStat ==
    [files |-> {AX, BX, AY}, dirs |-> {DirA, DirBA}, horizon |-> 2 * Timeout,
     extensions |-> {ExtB}, ignore_patterns |-> <<PatIg>>]
TreeDirTable ==
    [files |-> {AX, BX}, dirs |-> {DirA, DirBA}, horizon |-> Timeout,
     extensions |-> {ExtB}, ignore_patterns |-> <<PatIg>>]
TreeThreeDirs ==
    [files |-> {AX, BX, CX}, dirs |-> {DirA, DirBA, DirC},
     horizon |-> Timeout,
     extensions |-> {ExtB}, ignore_patterns |-> <<PatIg>>]

(* The same files watched by a handler built without an extension
   allow-list, and by one whose ignore patterns hold a malformed regular
   expression before or after a well-formed one. *)
TreeNoFilter ==
    [files |-> {AX, BX, AN}, dirs |-> {DirA, DirBA}, horizon |-> 2 * Timeout,
     extensions |-> {}, ignore_patterns |-> <<>>]
TreeKinds ==
    [files |-> {AM, BM}, dirs |-> {DirA, DirBA}, horizon |-> Timeout,
     extensions |-> {}, ignore_patterns |-> <<>>]
TreePrefix ==
    [files |-> {AX, BX, A2X, BA2X}, dirs |-> {DirA, DirBA}, horizon |-> Timeout,
     extensions |-> {ExtB}, ignore_patterns |-> <<PatIg>>]
TreeMalformed ==
    [files |-> {AX, BX, BIX}, dirs |-> {DirA, DirBA}, horizon |-> 2 * Timeout,
     extensions |-> {ExtB}, ignore_patterns |-> <<PatBad, PatIg>>]
TreeMalformedLast ==
    [files |-> {AX, BX, BIX}, dirs |-> {DirA, DirBA}, horizon |-> 2 * Timeout,
     extensions |-> {ExtB}, ignore_patterns |-> <<PatIg, PatBad>>]

Dirs == tree.dirs
Files == tree.files
Notifications == {<<f, FALSE>> : f \in Files} \cup {<<d, TRUE>> : d \in Dirs}

extensions == tree.extensions
ignore_patterns == tree.ignore_patterns

-----------------------------------------------------------------------------
(* Ordered dictionaries: sequences of records with a `path` key field *)

Keys(d) == {d[i].path : i \in 1..Len(d)}

IndexOf(d, k) == CHOOSE i \in 1..Len(d) : d[i].path = k

DictSet(d, rec) ==
    IF rec.path \in Keys(d)
    THEN [d EXCEPT ![IndexOf(d, rec.path)] = rec]
    ELSE Append(d, rec)

RECURSIVE SelectRecs(_, _)
SelectRecs(d, keep) ==
    IF d = <<>> THEN <<>>
    ELSE IF d[1].path \in keep
         THEN <<d[1]>> \o SelectRecs(Tail(d), keep)
         ELSE SelectRecs(Tail(d), keep)

DictDel(d, k) == SelectRecs(d, Keys(d) \ {k})

Reverse(s) == [i \in 1..Len(s) |-> s[Len(s) + 1 - i]]

LastN(s, n) == IF Len(s) <= n THEN s ELSE SubSeq(s, Len(s) - n + 1, Len(s))

-----------------------------------------------------------------------------
(* Filtering *)

(* re.search(pattern, path_str): the patterns of the model are literals, and
   one with an unterminated character set does not compile (re.error) *)
Malformed(pat) ==
    \E i \in 1..Len(pat) :
        pat[i] = "[" /\ ~\E j \in (i + 1)..Len(pat) : pat[j] = "]"

RECURSIVE is_path_ignored(_, _)
is_path_ignored(path, patterns) ==
    IF patterns = <<>> THEN "no"
    ELSE IF Malformed(patterns[1]) THEN "re.error"
    ELSE IF Contains(path, patterns[1]) THEN "yes"
    ELSE is_path_ignored(path, Tail(patterns))

should_ignore_path(path) == is_path_ignored(path, ignore_patterns) = "yes"

(* the exception that escapes the filter of a handler called with `paths`,
   which it tests in this order until one is ignored *)
RECURSIVE FilterRaisesFrom(_)
FilterRaisesFrom(paths) ==
    IF paths = <<>> THEN "none"
    ELSE LET ignored == is_path_ignored(paths[1], ignore_patterns)
         IN  IF ignored = "re.error" THEN "re.error"
             ELSE IF ignored = "yes" THEN "none"
             ELSE FilterRaisesFrom(Tail(paths))

FilterRaises(paths) ==
    IF \A i \in 1..Len(ignore_patterns) : ~Malformed(ignore_patterns[i])
    THEN "none"
    ELSE FilterRaisesFrom(paths)

should_track_file(file_path) ==
    \/ extensions = {}
    \/ Lower(Suffix(file_path)) \in extensions

(* What the glob under a moved directory can return: actual files below
   `directory` whose name ends with one of the extensions. *)
GlobCandidates(directory) ==
    {f \in Files : IsUnder(f, directory)
                   /\ \E ext \in extensions : EndsWith(Name(f), ext)}

SeqsOver(S) ==
    {q \in UNION {[1..n -> S] : n \in 0..Cardinality(S)} :
        \A i, j \in 1..Len(q) : i # j => q[i] # q[j]}

find_files_by_extension(directory) == SeqsOver(GlobCandidates(directory))

(* the files below `directory` that no glob pattern of the handler matches *)
NotGlobbed(directory) ==
    {f \in Files : IsUnder(f, directory)} \ GlobCandidates(directory)

-----------------------------------------------------------------------------
(* Records *)

MoveRec(type, old, new, isdir, corr, chain, ts) ==
    [type |-> type, old_path |-> old, new_path |-> new, is_directory |-> isdir,
     correlated |-> corr, chain_move |-> chain, timestamp |-> ts]

PendingRec(path, isdir, kind, ts) ==
    [path |-> path, is_directory |-> isdir,
     type |-> (IF isdir THEN "directory_" ELSE "file_") \o kind,
     timestamp_unix |-> ts]

Renamed_Same(type) == type

Renamed(type) ==
    IF type = "file_moved" THEN "file_renamed"
    ELSE IF type = "directory_moved" THEN "directory_renamed"
    ELSE type

(* the handler is built without a FileIndex *)
NoIndex == [built |-> FALSE]

Init ==
    /\ now = 0
    /\ move_events = <<>>
    /\ pending_deletes = <<>>
    /\ pending_creates = <<>>
    /\ recent_directory_moves = <<>>
    /\ directory_processed_files = <<>>
    /\ flushed = <<>>
    /\ calls = 0
    /\ last_call = <<"none">>
    /\ tree = TreeMoves
    /\ raised = "none"
    /\ threads = <<>>
    /\ index = NoIndex

InitPairs ==
    /\ now = 0
    /\ move_events = <<>>
    /\ pending_deletes = <<>>
    /\ pending_creates = <<>>
    /\ recent_directory_moves = <<>>
    /\ directory_processed_files = <<>>
    /\ flushed = <<>>
    /\ calls = 0
    /\ last_call = <<"none">>
    /\ tree = TreePairs
    /\ raised = "none"
    /\ threads = <<>>
    /\ index = NoIndex

InitChain ==
    /\ now = 0
    /\ move_events = <<>>
    /\ pending_deletes = <<>>
    /\ pending_creates = <<>>
    /\ recent_directory_moves = <<>>
    /\ directory_processed_files = <<>>
    /\ flushed = <<>>
    /\ calls = 0
    /\ last_call = <<"none">>
    /\ tree = TreeChain
    /\ raised = "none"
    /\ threads = <<>>
    /\ index = NoIndex

InitDirMove ==
    /\ now = 0
    /\ move_events = <<>>
    /\ pending_deletes = <<>>
    /\ pending_creates = <<>>
    /\ recent_directory_moves = <<>>
    /\ directory_processed_files = <<>>
    /\ flushed = <<>>
    /\ calls = 0
    /\ last_call = <<"none">>
    /\ tree = TreeDirMove
    /\ raised = "none"
    /\ threads = <<>>
    /\ index = NoIndex

InitStat ==
    /\ now = 0
    /\ move_events = <<>>
    /\ pending_deletes = <<>>
    /\ pending_creates = <<>>
    /\ recent_directory_moves = <<>>
    /\ directory_processed_files = <<>>
    /\ flushed = <<>>
    /\ calls = 0
    /\ last_call = <<"none">>
    /\ tree = TreeStat
    /\ raised = "none"
    /\ threads = <<>>
    /\ index = NoIndex

(* Directory moves recorded before the observed calls: '/o/<k>' moved to
   '/n/<k>', as many as the handler can hold when on_moved has returned, or
   as many as test_directory_cleanup_limits stores in the table itself. *)
DirLetters ==
    <<"a", "b", "c", "d", "e", "f", "g", "h", "i", "j", "k", "l", "m",
      "n", "o", "p", "q", "r", "s", "t", "u", "v", "w", "x", "y">>

TestFill == Len(DirLetters)

EarlierMoves(n) ==
    [k \in 1..n |-> [path |-> <<"/", "o", "/", DirLetters[k]>>,
                     new_dir |-> <<"/", "n", "/", DirLetters[k]>>]]

TableSizes ==
    {0, DirMovesCap - 1, DirMovesCap, DirMovesSweepCap + 1, TestFill}

InitDirTable ==
    /\ now = 0
    /\ move_events = <<>>
    /\ pending_deletes = <<>>
    /\ pending_creates = <<>>
    /\ recent_directory_moves \in {EarlierMoves(n) : n \in TableSizes}
    /\ directory_processed_files = <<>>
    /\ flushed = <<>>
    /\ calls = 0
    /\ last_call = <<"none">>
    /\ tree = TreeDirTable
    /\ raised = "none"
    /\ threads = <<>>
    /\ index = NoIndex

InitThreeDirs ==
    /\ now = 0
    /\ move_events = <<>>
    /\ pending_deletes = <<>>
    /\ pending_creates = <<>>
    /\ recent_directory_moves = <<>>
    /\ directory_processed_files = <<>>
    /\ flushed = <<>>
    /\ calls = 0
    /\ last_call = <<"none">>
    /\ tree = TreeThreeDirs
    /\ raised = "none"
    /\ threads = <<>>
    /\ index = NoIndex

-----------------------------------------------------------------------------
(* on_moved *)

EvictOldestHalf(d) == SubSeq(d, (Len(d) \div 2) + 1, Len(d))

(* a table that is never trimmed *)
RecordDirectoryMove_Unbounded(rdm, src, dest) ==
    DictSet(rdm, [path |-> src, new_dir |-> dest])

RecordDirectoryMove(rdm, src, dest) ==
    LET d == DictSet(rdm, [path |-> src, new_dir |-> dest])
    IN  IF Len(d) > DirMovesCap THEN EvictOldestHalf(d) ELSE d

ExpansionEvent_Directory(src, dest, new_file_path, t) ==
    MoveRec("directory_moved", src, dest, TRUE, FALSE, FALSE, t)

ExpansionEvent(src, dest, new_file_path, t) ==
    MoveRec("file_moved",
            JoinPath(src, RelativeTo(new_file_path, dest)), new_file_path,
            FALSE, FALSE, FALSE, t)

RECURSIVE MarkProcessed(_, _, _)
MarkProcessed(dpf, evs, t) ==
    IF evs = <<>> THEN dpf
    ELSE MarkProcessed(
            DictSet(DictSet(dpf, [path |-> evs[1].old_path, ts |-> t]),
                    [path |-> evs[1].new_path, ts |-> t]),
            Tail(evs), t)

(* `others` are the files below dest that the glob does not return; the
   call is remembered with all the files that are below dest *)
OnDirMoved(src, dest, moved_files, others) ==
    /\ calls < MaxCalls
    /\ calls' = calls + 1
    /\ last_call' = <<"on_moved", src, dest, TRUE,
                      {moved_files[i] : i \in 1..Len(moved_files)} \cup others>>
    /\ flushed' = <<>>
    /\ UNCHANGED <<threads, index, now, tree, pending_deletes, pending_creates>>
    /\ raised' = FilterRaises(<<src, dest>>)
    /\ IF \/ FilterRaises(<<src, dest>>) # "none"
          \/ should_ignore_path(src) \/ should_ignore_path(dest)
       THEN UNCHANGED <<move_events, recent_directory_moves,
                        directory_processed_files>>
       ELSE LET evs == [i \in 1..Len(moved_files) |->
                          ExpansionEvent(src, dest, moved_files[i], now)]
            IN  /\ recent_directory_moves' =
                       RecordDirectoryMove(recent_directory_moves, src, dest)
                /\ move_events' = move_events \o evs
                /\ directory_processed_files' =
                       MarkProcessed(directory_processed_files, evs, now)

(* lines 247-258: the file move repeats a recorded directory move *)
PartOfDirectoryMove(rdm, src_path, dest_path) ==
    \E i \in 1..Len(rdm) :
        /\ StartsWith(src_path, rdm[i].path)
        /\ StartsWith(dest_path, rdm[i].new_dir)
        /\ LStripSep(SliceFrom(src_path, Len(rdm[i].path)))
             = LStripSep(SliceFrom(dest_path, Len(rdm[i].new_dir)))

DirectMoveType_Moved(src_path, dest_path) == "file_moved"

DirectMoveType(src_path, dest_path) ==
    IF Parent(src_path) = Parent(dest_path) THEN "file_renamed" ELSE "file_moved"

OnFileMoved(src_path, dest_path) ==
    /\ calls < MaxCalls
    /\ calls' = calls + 1
    /\ last_call' = <<"on_moved", src_path, dest_path, FALSE>>
    /\ flushed' = <<>>
    /\ UNCHANGED <<threads, index, now, tree, pending_deletes, pending_creates,
                   recent_directory_moves, directory_processed_files>>
    /\ raised' = FilterRaises(<<src_path, dest_path>>)
    /\ IF \/ FilterRaises(<<src_path, dest_path>>) # "none"
          \/ should_ignore_path(src_path) \/ should_ignore_path(dest_path)
          \/ (~should_track_file(src_path) /\ ~should_track_file(dest_path))
          \/ PartOfDirectoryMove(recent_directory_moves, src_path, dest_path)
       THEN UNCHANGED move_events
       ELSE move_events' = Append(move_events,
                   MoveRec(DirectMoveType(src_path, dest_path),
                           src_path, dest_path, FALSE, FALSE, FALSE, now))

-----------------------------------------------------------------------------
(* _clean_expired_events *)

RECURSIVE DropExpired(_, _, _)
DropExpired(d, t, limit) ==
    IF d = <<>> THEN <<>>
    ELSE IF t - d[1].timestamp_unix > limit
         THEN DropExpired(Tail(d), t, limit)
         ELSE <<d[1]>> \o DropExpired(Tail(d), t, limit)

(* markers kept no longer than pending events *)
DropExpiredMarkers_Short(dpf, t) ==
    SelectSeq(dpf, LAMBDA m : t - m.ts <= Timeout)

RECURSIVE DropExpiredMarkers(_, _)
DropExpiredMarkers(dpf, t) ==
    IF dpf = <<>> THEN <<>>
    ELSE IF t - dpf[1].ts > Timeout * 3
         THEN DropExpiredMarkers(Tail(dpf), t)
         ELSE <<dpf[1]>> \o DropExpiredMarkers(Tail(dpf), t)

SweepDirectoryMoves(rdm) ==
    IF Len(rdm) > DirMovesSweepCap THEN EvictOldestHalf(rdm) ELSE rdm

-----------------------------------------------------------------------------
(* _try_correlate_events *)

(* lines 407-412, 497-502: the path carries a marker younger than twice the
   correlation timeout *)
RecentlyProcessed_Never(dpf, path, t) == FALSE

RecentlyProcessed(dpf, path, t) ==
    \E i \in 1..Len(dpf) : dpf[i].path = path /\ t - dpf[i].ts < Timeout * 2

Abs(n) == IF n < 0 THEN 0 - n ELSE n

(* lines 442-461: candidate earlier locations of a created file, markers
   first (dict order), then the last events, newest first *)
RECURSIVE MarkerLocations(_, _, _)
MarkerLocations(dpf, path, t) ==
    IF dpf = <<>> THEN <<>>
    ELSE IF /\ t - dpf[1].ts < Timeout * 2
            /\ Name(dpf[1].path) = Name(path)
            /\ dpf[1].path # path
         THEN <<dpf[1].path>> \o MarkerLocations(Tail(dpf), path, t)
         ELSE MarkerLocations(Tail(dpf), path, t)

RECURSIVE EventLocations(_, _, _)
EventLocations(evs, path, t) ==
    IF evs = <<>> THEN <<>>
    ELSE IF /\ Name(evs[1].new_path) = Name(path)
            /\ evs[1].new_path # path
            /\ t - evs[1].timestamp < Timeout * 2
         THEN <<evs[1].new_path>> \o EventLocations(Tail(evs), path, t)
         ELSE EventLocations(Tail(evs), path, t)

RecentLocations(dpf, evs, path, t) ==
    MarkerLocations(dpf, path, t)
        \o EventLocations(Reverse(LastN(evs, ChainLookback)), path, t)

ChainEvent(old, path, t) ==
    MoveRec(IF Parent(old) = Parent(path) THEN "file_renamed" ELSE "file_moved",
            old, path, FALSE, TRUE, TRUE, t)

(* a scan that trusts the filename alone *)
Matches_SameNameOnly(d, path, sz, dpf, t) ==
    /\ ~RecentlyProcessed(dpf, d.path, t)
    /\ Lower(Suffix(d.path)) = Lower(Suffix(path))
    /\ Abs(t - d.timestamp_unix) <= Timeout
    /\ Name(d.path) = Name(path)

(* lines 504-530: does the pending delete `d` match the create of `path`;
   sz gives the size stat() reports for a path, 0 when it does not exist *)
Matches(d, path, sz, dpf, t) ==
    LET delete_size == sz[d.path]
        file_size == sz[path]
        same_name == Name(d.path) = Name(path)
        similar_size == IF delete_size > 0
                        THEN Abs(delete_size - file_size) < SizeTolerance
                        ELSE FALSE
        no_delete_size == delete_size = 0
    IN  /\ ~RecentlyProcessed(dpf, d.path, t)
        /\ Lower(Suffix(d.path)) = Lower(Suffix(path))
        /\ Abs(t - d.timestamp_unix) <= Timeout
        /\ (same_name \/ similar_size \/ no_delete_size)

FirstMatch_Last(pd, path, sz, dpf, t) ==
    LET hits == {i \in 1..Len(pd) : Matches(pd[i], path, sz, dpf, t)}
    IN  IF hits = {} THEN 0
        ELSE CHOOSE i \in hits : \A j \in hits : i >= j

FirstMatch(pd, path, sz, dpf, t) ==
    LET hits == {i \in 1..Len(pd) : Matches(pd[i], path, sz, dpf, t)}
    IN  IF hits = {} THEN 0
        ELSE CHOOSE i \in hits : \A j \in hits : i <= j

(* lines 542-579 *)
DirectoryRelated(rdm, delete_path, path) ==
    \E i \in 1..Len(rdm) :
        \/ /\ StartsWith(delete_path, rdm[i].path)
           /\ StartsWith(path, rdm[i].new_dir)
        \/ /\ StartsWith(delete_path, rdm[i].path)
           /\ StartsWith(path, rdm[i].new_dir)
           /\ LStripSep(SliceFrom(delete_path, Len(rdm[i].path)))
                = LStripSep(SliceFrom(path, Len(rdm[i].new_dir)))

(* a correlation that reports every matched pair as a rename *)
CorrelatedEvent_Renamed(d, path, is_directory, t) ==
    MoveRec(Renamed(IF is_directory THEN "directory_moved" ELSE "file_moved"),
            d.path, path, is_directory, TRUE, FALSE, t)

CorrelatedEvent(d, path, is_directory, t) ==
    LET base == IF is_directory THEN "directory_moved" ELSE "file_moved"
    IN  MoveRec(IF Parent(d.path) = Parent(path) THEN Renamed(base) ELSE base,
                d.path, path, is_directory, TRUE, FALSE, t)

-----------------------------------------------------------------------------
(* on_deleted *)

Dropped(path, is_directory) ==
    \/ should_ignore_path(path)
    \/ (~is_directory /\ ~should_track_file(path))

OnDeleted_Symmetric(path, is_directory) ==
    /\ calls < MaxCalls
    /\ calls' = calls + 1
    /\ last_call' = <<"on_deleted", path, is_directory>>
    /\ flushed' = <<>>
    /\ UNCHANGED <<threads, index, now, tree, recent_directory_moves,
                   directory_processed_files>>
    /\ raised' = "none"
    /\ LET hits == {i \in 1..Len(pending_creates) :
                       Name(pending_creates[i].path) = Name(path)}
       IN  IF hits = {}
           THEN /\ pending_deletes' =
                       DictSet(pending_deletes,
                               PendingRec(path, is_directory, "deleted", now))
                /\ UNCHANGED <<pending_creates, move_events>>
           ELSE LET c == pending_creates[CHOOSE i \in hits : TRUE]
                IN  /\ move_events' = Append(move_events,
                           MoveRec("file_moved", path, c.path, is_directory,
                                   TRUE, FALSE, now))
                    /\ pending_creates' = DictDel(pending_creates, c.path)
                    /\ UNCHANGED pending_deletes

OnDeleted(path, is_directory) ==
    /\ calls < MaxCalls
    /\ calls' = calls + 1
    /\ last_call' = <<"on_deleted", path, is_directory>>
    /\ flushed' = <<>>
    /\ UNCHANGED <<threads, index, now, tree, move_events>>
    /\ raised' = FilterRaises(<<path>>)
    /\ IF FilterRaises(<<path>>) # "none" \/ Dropped(path, is_directory)
       THEN UNCHANGED <<pending_deletes, pending_creates,
                        recent_directory_moves, directory_processed_files>>
       ELSE LET pd == DropExpired(pending_deletes, now, Timeout)
                dpf == DropExpiredMarkers(directory_processed_files, now)
            IN  /\ pending_creates' = DropExpired(pending_creates, now, Timeout)
                /\ directory_processed_files' = dpf
                /\ recent_directory_moves' =
                       SweepDirectoryMoves(recent_directory_moves)
                /\ pending_deletes' =
                       IF RecentlyProcessed(dpf, path, now) THEN pd
                       ELSE DictSet(pd, PendingRec(path, is_directory,
                                                   "deleted", now))

-----------------------------------------------------------------------------
(* on_created *)

Created(path, is_directory, sz) ==
    /\ calls < MaxCalls
    /\ calls' = calls + 1
    /\ flushed' = <<>>
    /\ UNCHANGED <<threads, index, now, tree>>
    /\ raised' = FilterRaises(<<path>>)
    /\ IF FilterRaises(<<path>>) # "none" \/ Dropped(path, is_directory)
       THEN UNCHANGED <<move_events, pending_deletes, pending_creates,
                        recent_directory_moves, directory_processed_files>>
       ELSE LET pd == DropExpired(pending_deletes, now, Timeout)
                pc == DropExpired(pending_creates, now, Timeout)
                dpf == DropExpiredMarkers(directory_processed_files, now)
                rdm == SweepDirectoryMoves(recent_directory_moves)
                locs == IF is_directory \/ RecentlyProcessed(dpf, path, now)
                        THEN <<>>
                        ELSE RecentLocations(dpf, move_events, path, now)
                m == FirstMatch(pd, path, sz, dpf, now)
            IN  /\ directory_processed_files' = dpf
                /\ recent_directory_moves' = rdm
                /\ IF RecentlyProcessed(dpf, path, now)
                   THEN /\ pending_deletes' = pd
                        /\ pending_creates' = pc
                        /\ UNCHANGED move_events
                   ELSE IF locs # <<>>
                   THEN /\ move_events' =
                               Append(move_events, ChainEvent(locs[1], path, now))
                        /\ pending_deletes' = pd
                        /\ pending_creates' = pc
                   ELSE IF m # 0 /\ DirectoryRelated(rdm, pd[m].path, path)
                   THEN /\ pending_deletes' = DictDel(pd, pd[m].path)
                        /\ pending_creates' = pc
                        /\ UNCHANGED move_events
                   ELSE IF m # 0
                   THEN /\ move_events' = Append(move_events,
                               CorrelatedEvent(pd[m], path, is_directory, now))
                        /\ pending_deletes' = DictDel(pd, pd[m].path)
                        /\ pending_creates' = pc
                   ELSE /\ pending_creates' =
                               DictSet(pc, PendingRec(path, is_directory,
                                                      "created", now))
                        /\ pending_deletes' = pd
                        /\ UNCHANGED move_events

OnCreated(path, is_directory, sz) ==
    /\ Created(path, is_directory, sz)
    /\ last_call' = <<"on_created", path, is_directory>>

(* the same handler, observed together with what stat() reported to it *)
OnCreatedStat(path, is_directory, sz) ==
    /\ Created(path, is_directory, sz)
    /\ last_call' = <<"on_created", path, is_directory, sz>>

-----------------------------------------------------------------------------
(* flush_pending_events *)

Unmatched(d) ==
    [i \in 1..Len(d) |->
        [path |-> d[i].path, is_directory |-> d[i].is_directory,
         type |-> d[i].type, timestamp_unix |-> d[i].timestamp_unix,
         unmatched |-> TRUE]]

Flush_KeepsDeletes ==
    /\ calls < MaxCalls
    /\ calls' = calls + 1
    /\ last_call' = <<"flush_pending_events">>
    /\ flushed' = Unmatched(pending_creates \o pending_deletes)
    /\ raised' = "none"
    /\ pending_creates' = <<>>
    /\ UNCHANGED <<threads, index, now, tree, move_events, pending_deletes,
                   recent_directory_moves, directory_processed_files>>

Flush ==
    /\ calls < MaxCalls
    /\ calls' = calls + 1
    /\ last_call' = <<"flush_pending_events">>
    /\ flushed' = Unmatched(pending_creates \o pending_deletes)
    /\ raised' = "none"
    /\ pending_creates' = <<>>
    /\ pending_deletes' = <<>>
    /\ UNCHANGED <<threads, index, now, tree, move_events, recent_directory_moves,
                   directory_processed_files>>

(* the passage of time between two calls; the clock starts at the first *)
Tick ==
    /\ now < tree.horizon
    /\ calls > 0
    /\ calls < MaxCalls
    /\ now' = now + 1
    /\ UNCHANGED <<move_events, pending_deletes, pending_creates,
                   recent_directory_moves, directory_processed_files,
                   flushed, calls, last_call, tree, raised, threads, index>>

-----------------------------------------------------------------------------
(* what stat() can report when a create is handled: the created path exists;
   a path whose delete is pending is gone (size 0) unless it was replaced *)
StatResults(path) ==
    LET live == Keys(DropExpired(pending_deletes, now, Timeout))
    IN  {sz \in [live \cup {path} -> {0, 100, 5000}] : sz[path] = 100}

Next ==
    \/ \E src \in Dirs, dest \in Dirs :
         /\ src # dest
         /\ \E others \in SUBSET NotGlobbed(dest) :
              \E found \in find_files_by_extension(dest) :
                OnDirMoved(src, dest, found, others)
    \/ \E src \in Files, dest \in Files :
         /\ src # dest
         /\ OnFileMoved(src, dest)
    \/ \E n \in Notifications : OnDeleted(n[1], n[2])
    \/ \E n \in Notifications :
         \E sz \in StatResults(n[1]) : OnCreated(n[1], n[2], sz)
    \/ Flush
    \/ Tick

(* A notification layer that reports the move of a file as a delete and a
   create, never as a move: the handler observed together with what stat()
   reported to each create, with sizes on both sides of the 1024-byte
   tolerance around a created file of 100 bytes. *)
StatResultsNear(path) ==
    LET live == Keys(DropExpired(pending_deletes, now, Timeout))
    IN  {sz \in [live \cup {path} -> {0, 100, 1123, 1124}] :
            sz[path] = 100 /\ \A q \in live \ {path} : sz[q] # 100}

NextStat ==
    \/ \E src \in Dirs, dest \in Dirs :
         /\ src # dest
         /\ \E others \in SUBSET NotGlobbed(dest) :
              \E found \in find_files_by_extension(dest) :
                OnDirMoved(src, dest, found, others)
    \/ \E n \in Notifications : OnDeleted(n[1], n[2])
    \/ \E n \in Notifications :
         \E sz \in StatResultsNear(n[1]) : OnCreatedStat(n[1], n[2], sz)
    \/ Flush
    \/ Tick

Spec == Init /\ [][Next]_vars

SpecStat == InitStat /\ [][NextStat]_vars

SpecDirTable == InitDirTable /\ [][Next]_vars

SpecPairs == InitPairs /\ [][Next]_vars

SpecChain == InitChain /\ [][Next]_vars

SpecDirMove == InitDirMove /\ [][Next]_vars

SpecThreeDirs == InitThreeDirs /\ [][Next]_vars

(* a handler built without an extension allow-list and without ignore
   patterns *)
InitNoFilter ==
    /\ now = 0
    /\ move_events = <<>>
    /\ pending_deletes = <<>>
    /\ pending_creates = <<>>
    /\ recent_directory_moves = <<>>
    /\ directory_processed_files = <<>>
    /\ flushed = <<>>
    /\ calls = 0
    /\ last_call = <<"none">>
    /\ tree = TreeNoFilter
    /\ raised = "none"
    /\ threads = <<>>
    /\ index = NoIndex

SpecNoFilter == InitNoFilter /\ [][Next]_vars

(* directories /a2 and /b/a2 next to /a and /b/a *)
InitPrefix ==
    /\ now = 0
    /\ move_events = <<>>
    /\ pending_deletes = <<>>
    /\ pending_creates = <<>>
    /\ recent_directory_moves = <<>>
    /\ directory_processed_files = <<>>
    /\ flushed = <<>>
    /\ calls = 0
    /\ last_call = <<"none">>
    /\ tree = TreePrefix
    /\ raised = "none"
    /\ threads = <<>>
    /\ index = NoIndex

SpecPrefix == InitPrefix /\ [][Next]_vars

(* no allow-list, and files that have no extension *)
InitKinds ==
    /\ now = 0
    /\ move_events = <<>>
    /\ pending_deletes = <<>>
    /\ pending_creates = <<>>
    /\ recent_directory_moves = <<>>
    /\ directory_processed_files = <<>>
    /\ flushed = <<>>
    /\ calls = 0
    /\ last_call = <<"none">>
    /\ tree = TreeKinds
    /\ raised = "none"
    /\ threads = <<>>
    /\ index = NoIndex

SpecKinds == InitKinds /\ [][Next]_vars

(* a handler one of whose ignore patterns is malformed *)
InitMalformed ==
    /\ now = 0
    /\ move_events = <<>>
    /\ pending_deletes = <<>>
    /\ pending_creates = <<>>
    /\ recent_directory_moves = <<>>
    /\ directory_processed_files = <<>>
    /\ flushed = <<>>
    /\ calls = 0
    /\ last_call = <<"none">>
    /\ tree \in {TreeMalformed, TreeMalformedLast}
    /\ raised = "none"
    /\ threads = <<>>
    /\ index = NoIndex

SpecMalformed == InitMalformed /\ [][Next]_vars

-----------------------------------------------------------------------------
(* Concurrent calls of the correlator.  The handler's code is cut where it
   takes and releases correlation_lock: a `with self.correlation_lock` block
   is one step, and so is an append to move_events made outside the lock.
   The sections are written as functions of the handler's tables, and a call
   run alone is the composition of its sections. *)

Threads == {1, 2}

Tables ==
    [move_events |-> move_events,
     pending_deletes |-> pending_deletes,
     pending_creates |-> pending_creates,
     recent_directory_moves |-> recent_directory_moves,
     directory_processed_files |-> directory_processed_files]

EmptyTables ==
    [move_events |-> <<>>, pending_deletes |-> <<>>, pending_creates |-> <<>>,
     recent_directory_moves |-> <<>>, directory_processed_files |-> <<>>]

(* lines 195-203 *)
SectionRecordDirectoryMove(s, src, dest) ==
    [s EXCEPT !.recent_directory_moves = RecordDirectoryMove(@, src, dest)]

(* line 231, log_event outside the lock *)
SectionLogEvent(s, ev) == [s EXCEPT !.move_events = Append(@, ev)]

(* lines 234-236 *)
SectionMarkProcessed(s, ev, t) ==
    [s EXCEPT !.directory_processed_files = MarkProcessed(@, <<ev>>, t)]

(* lines 365-398 *)
SectionCleanExpired(s, t) ==
    [s EXCEPT !.pending_deletes = DropExpired(@, t, Timeout),
              !.pending_creates = DropExpired(@, t, Timeout),
              !.directory_processed_files = DropExpiredMarkers(@, t),
              !.recent_directory_moves = SweepDirectoryMoves(@)]

(* lines 400-422 *)
SectionCorrelateDelete(s, path, is_directory, t) ==
    IF RecentlyProcessed(s.directory_processed_files, path, t) THEN s
    ELSE [s EXCEPT !.pending_deletes =
              DictSet(@, PendingRec(path, is_directory, "deleted", t))]

(* a deleted path is gone when the create is correlated, unless it is the
   created path itself *)
StatGone(pd, path) ==
    [q \in Keys(pd) \cup {path} |-> IF q = path THEN 100 ELSE 0]

(* lines 400-412, 424-614 *)
SectionCorrelateCreate(s, path, is_directory, t) ==
    LET dpf == s.directory_processed_files
        pd == s.pending_deletes
        locs == IF is_directory THEN <<>>
                ELSE RecentLocations(dpf, s.move_events, path, t)
        m == FirstMatch(pd, path, StatGone(pd, path), dpf, t)
    IN  IF RecentlyProcessed(dpf, path, t) THEN s
        ELSE IF locs # <<>>
        THEN [s EXCEPT !.move_events = Append(@, ChainEvent(locs[1], path, t))]
        ELSE IF m # 0 /\ DirectoryRelated(s.recent_directory_moves,
                                          pd[m].path, path)
        THEN [s EXCEPT !.pending_deletes = DictDel(@, pd[m].path)]
        ELSE IF m # 0
        THEN [s EXCEPT !.move_events =
                           Append(@, CorrelatedEvent(pd[m], path,
                                                     is_directory, t)),
                       !.pending_deletes = DictDel(@, pd[m].path)]
        ELSE [s EXCEPT !.pending_creates =
                  DictSet(@, PendingRec(path, is_directory, "created", t))]

(* A call is <<"on_moved", src, dest, is_directory, moved_files>>,
   <<"on_deleted", path, is_directory>> or <<"on_created", path,
   is_directory>>. *)
RECURSIVE ExpandAlone(_, _, _, _, _)
ExpandAlone(s, src, dest, moved_files, t) ==
    IF moved_files = <<>> THEN s
    ELSE LET ev == ExpansionEvent(src, dest, moved_files[1], t)
         IN  ExpandAlone(SectionMarkProcessed(SectionLogEvent(s, ev), ev, t),
                         src, dest, Tail(moved_files), t)

(* the tables after the call has run alone, from start to end *)
RunAlone(s, call, t) ==
    IF call[1] = "on_moved" /\ call[4]
    THEN IF should_ignore_path(call[2]) \/ should_ignore_path(call[3]) THEN s
         ELSE ExpandAlone(SectionRecordDirectoryMove(s, call[2], call[3]),
                          call[2], call[3], call[5], t)
    ELSE IF call[1] = "on_moved"
    THEN IF \/ should_ignore_path(call[2]) \/ should_ignore_path(call[3])
            \/ (~should_track_file(call[2]) /\ ~should_track_file(call[3]))
            \/ PartOfDirectoryMove(s.recent_directory_moves, call[2], call[3])
         THEN s
         ELSE SectionLogEvent(s,
                  MoveRec(DirectMoveType(call[2], call[3]), call[2], call[3],
                          FALSE, FALSE, FALSE, t))
    ELSE IF Dropped(call[2], call[3]) THEN s
    ELSE IF call[1] = "on_deleted"
    THEN SectionCorrelateDelete(SectionCleanExpired(s, t),
                                call[2], call[3], t)
    ELSE SectionCorrelateCreate(SectionCleanExpired(s, t),
                                call[2], call[3], t)

ConcurrentCalls ==
    {<<"on_moved", src, dest, TRUE, found>> :
        src \in Dirs, dest \in Dirs, found \in SeqsOver(Files)}
    \cup {<<"on_moved", src, dest, FALSE, <<>> >> :
             src \in Files, dest \in Files}
    \cup {<<n[3], n[1], n[2]>> :
             n \in {<<m[1], m[2], k>> :
                       m \in Notifications, k \in {"on_deleted", "on_created"}}}

Idle == [pos |-> "idle", call |-> <<>>, todo |-> <<>>]

SetTables(s) ==
    /\ move_events' = s.move_events
    /\ pending_deletes' = s.pending_deletes
    /\ pending_creates' = s.pending_creates
    /\ recent_directory_moves' = s.recent_directory_moves
    /\ directory_processed_files' = s.directory_processed_files

(* the watchdog thread t enters a handler; the filter at the head of the
   handler touches no shared state and is taken with the entry *)
Invoke(t, call) ==
    /\ threads[t].pos = "idle"
    /\ call[1] = "on_moved" => call[2] # call[3]
    /\ (call[1] = "on_moved" /\ call[4])
          => call[5] \in find_files_by_extension(call[3])
    /\ threads' = [threads EXCEPT ![t] =
          [pos |-> IF call[1] = "on_moved"
                   THEN IF \/ should_ignore_path(call[2])
                           \/ should_ignore_path(call[3])
                           \/ (~call[4] /\ ~should_track_file(call[2])
                                        /\ ~should_track_file(call[3]))
                        THEN "done"
                        ELSE IF call[4] THEN "record" ELSE "check"
                   ELSE IF Dropped(call[2], call[3]) THEN "done" ELSE "clean",
           call |-> call, todo |-> <<>>]]
    /\ UNCHANGED <<now, move_events, pending_deletes, pending_creates,
                   recent_directory_moves, directory_processed_files,
                   flushed, calls, last_call, tree, raised, index>>

StepFrame == UNCHANGED <<now, flushed, calls, last_call, tree, raised, index>>

(* on_moved, lines 195-213: record the directory move, then glob *)
DirMoveRecord(t) ==
    /\ threads[t].pos = "record"
    /\ SetTables(SectionRecordDirectoryMove(Tables, threads[t].call[2],
                                            threads[t].call[3]))
    /\ threads' = [threads EXCEPT
          ![t].todo = threads[t].call[5],
          ![t].pos = IF threads[t].call[5] = <<>> THEN "done" ELSE "log"]
    /\ StepFrame

(* on_moved, lines 215-231: log_event of the next file, lock not held *)
DirMoveLog(t) ==
    /\ threads[t].pos = "log"
    /\ SetTables(SectionLogEvent(Tables,
           ExpansionEvent(threads[t].call[2], threads[t].call[3],
                          threads[t].todo[1], now)))
    /\ threads' = [threads EXCEPT ![t].pos = "mark"]
    /\ StepFrame

(* on_moved, lines 233-236: the markers of that file *)
DirMoveMark(t) ==
    /\ threads[t].pos = "mark"
    /\ SetTables(SectionMarkProcessed(Tables,
           ExpansionEvent(threads[t].call[2], threads[t].call[3],
                          threads[t].todo[1], now), now))
    /\ threads' = [threads EXCEPT
          ![t].todo = Tail(threads[t].todo),
          ![t].pos = IF Tail(threads[t].todo) = <<>> THEN "done" ELSE "log"]
    /\ StepFrame

(* on_moved, lines 246-261: the dedup check of a file move *)
FileMoveCheck(t) ==
    /\ threads[t].pos = "check"
    /\ threads' = [threads EXCEPT ![t].pos =
          IF PartOfDirectoryMove(recent_directory_moves, threads[t].call[2],
                                 threads[t].call[3])
          THEN "done" ELSE "emit"]
    /\ UNCHANGED <<move_events, pending_deletes, pending_creates,
                   recent_directory_moves, directory_processed_files>>
    /\ StepFrame

(* on_moved, lines 263-285: log_event of the file move, lock not held *)
FileMoveLog(t) ==
    /\ threads[t].pos = "emit"
    /\ SetTables(SectionLogEvent(Tables,
           MoveRec(DirectMoveType(threads[t].call[2], threads[t].call[3]),
                   threads[t].call[2], threads[t].call[3],
                   FALSE, FALSE, FALSE, now)))
    /\ threads' = [threads EXCEPT ![t].pos = "done"]
    /\ StepFrame

(* on_deleted / on_created, lines 303 and 334: _clean_expired_events *)
CleanStep(t) ==
    /\ threads[t].pos = "clean"
    /\ SetTables(SectionCleanExpired(Tables, now))
    /\ threads' = [threads EXCEPT ![t].pos = "correlate"]
    /\ StepFrame

(* on_deleted / on_created, lines 314 and 345: _try_correlate_events *)
CorrelateStep(t) ==
    /\ threads[t].pos = "correlate"
    /\ SetTables(IF threads[t].call[1] = "on_deleted"
                 THEN SectionCorrelateDelete(Tables, threads[t].call[2],
                                             threads[t].call[3], now)
                 ELSE SectionCorrelateCreate(Tables, threads[t].call[2],
                                             threads[t].call[3], now))
    /\ threads' = [threads EXCEPT ![t].pos = "done"]
    /\ StepFrame

InitConcurrent ==
    /\ now = 0
    /\ move_events = <<>>
    /\ pending_deletes = <<>>
    /\ pending_creates = <<>>
    /\ recent_directory_moves = <<>>
    /\ directory_processed_files = <<>>
    /\ flushed = <<>>
    /\ calls = 0
    /\ last_call = <<"none">>
    /\ tree = TreeChain
    /\ raised = "none"
    /\ threads = [t \in Threads |-> Idle]
    /\ index = NoIndex

NextConcurrent ==
    \/ \E t \in Threads : \E call \in ConcurrentCalls : Invoke(t, call)
    \/ \E t \in Threads : DirMoveRecord(t)
    \/ \E t \in Threads : DirMoveLog(t)
    \/ \E t \in Threads : DirMoveMark(t)
    \/ \E t \in Threads : FileMoveCheck(t)
    \/ \E t \in Threads : FileMoveLog(t)
    \/ \E t \in Threads : CleanStep(t)
    \/ \E t \in Threads : CorrelateStep(t)

SpecConcurrent == InitConcurrent /\ [][NextConcurrent]_vars

-----------------------------------------------------------------------------
(* FileIndex: the snapshot of the tracked files below watch_path, the
   recent deletions and creations, and the background rescan loop.  The
   disk is part of the state: a set of FileInfo records, one for each file
   that exists.  rescan() walks the disk without the lock and swaps the
   snapshot under it, so the walk and the swap are two steps; the calls
   made under the lock are one step each.  Each scanning thread remembers
   which paths were recorded as created and as deleted after its walk. *)

CorrelationWindow == 10
MtimeTolerance == 2
MissingMtimeTolerance == 5

(* Bound of the model: the number of changes made to the disk *)
MaxFsOps == 1

FileInfo(path, size, mtime) == [path |-> path, size |-> size, mtime |-> mtime]

IndexEvent(info, t) == [path |-> info.path, info |-> info, ts |-> t]

WatchPath == <<"/">>

TreeIndex ==
    [files |-> {AX, AY, BX}, dirs |-> {DirA, DirBA}, horizon |-> 1,
     extensions |-> {ExtB}, ignore_patterns |-> <<PatIg>>]

(* the files on the disk when the index is built, and the size and the
   modification time a file written later can have *)
InitialDisk == {FileInfo(AX, 100, 0), FileInfo(AY, 100, 0)}

WrittenInfos ==
    {[size |-> 100, mtime |-> 2], [size |-> 100, mtime |-> 5],
     [size |-> 200, mtime |-> 0]}

Exists(disk, p) == \E f \in disk : f.path = p

Stat(disk, p) == CHOOSE f \in disk : f.path = p

(* the order in which os.walk yields the files of the tree *)
WalkOrder == <<AX, AY, AN, BX, BIX, CX>>

Pruned(dir) ==
    LET relative_path_str == LStripSep(dir)
    IN  /\ ignore_patterns # <<>>
        /\ relative_path_str # <<>>
        /\ is_path_ignored(relative_path_str, ignore_patterns) = "yes"

RECURSIVE Descended(_)
Descended(dir) ==
    \/ dir = WatchPath
    \/ Descended(Parent(dir)) /\ ~Pruned(dir)

RECURSIVE WalkFrom(_, _)
WalkFrom(disk, order) ==
    IF order = <<>> THEN <<>>
    ELSE LET p == order[1]
             rest == WalkFrom(disk, Tail(order))
         IN  IF /\ Exists(disk, p)
                /\ Descended(Parent(p))
                /\ Lower(Suffix(p)) \in extensions
             THEN <<Stat(disk, p)>> \o rest
             ELSE rest

Walk(disk) == WalkFrom(disk, WalkOrder)

(* a caller's thread: where it is in start(), stop() or rescan(), the call
   made before this one, and the number of disk changes at its latest walk
   and at the one before *)
MainIdle ==
    [pos |-> "idle", new_files |-> <<>>, cont |-> "none",
     after |-> <<"none">>, created |-> {}, deleted |-> {},
     seen |-> 0, since |-> 0]

Returned(main) == [MainIdle EXCEPT !.seen = main.seen]

LoopThread ==
    [pos |-> "wait", new_files |-> <<>>, created |-> {}, deleted |-> {},
     signalled |-> FALSE]

NewFileIndex(rescan_interval) ==
    [built |-> TRUE, rescan_interval |-> rescan_interval,
     disk |-> InitialDisk, fs_ops |-> 0,
     current_files |-> <<>>, recent_deletions |-> <<>>,
     recent_creations |-> <<>>,
     stop_event |-> FALSE, rescan_thread |-> 0, loops |-> <<>>,
     main |-> MainIdle]

(* what the scanning threads remember of the calls and of the disk *)
Note(sc, cr, dl) ==
    IF sc.pos = "swap"
    THEN [sc EXCEPT !.created = (@ \ dl) \cup cr, !.deleted = (@ \ cr) \cup dl]
    ELSE sc

Noted(ix, cr, dl) ==
    [ix EXCEPT !.main = Note(@, cr, dl),
               !.loops = [i \in 1..Len(ix.loops) |-> Note(ix.loops[i], cr, dl)]]

Forget(sc, gone, back) ==
    [sc EXCEPT !.created = @ \ gone, !.deleted = @ \ back]

Forgot(ix, gone, back) ==
    [ix EXCEPT !.main = Forget(@, gone, back),
               !.loops = [i \in 1..Len(ix.loops) |->
                             Forget(ix.loops[i], gone, back)]]

(* the calls made under the lock, as functions of the index *)
record_deletion_KeepsSnapshot(ix, file_path, t) ==
    IF file_path \in Keys(ix.current_files)
    THEN LET file_info == ix.current_files[IndexOf(ix.current_files, file_path)]
         IN  [ix EXCEPT
                 !.recent_deletions = DictSet(@, IndexEvent(file_info, t))]
    ELSE ix

record_deletion(ix, file_path, t) ==
    IF file_path \in Keys(ix.current_files)
    THEN LET file_info == ix.current_files[IndexOf(ix.current_files, file_path)]
         IN  Noted([ix EXCEPT
                       !.recent_deletions = DictSet(@, IndexEvent(file_info, t)),
                       !.current_files = DictDel(@, file_path)],
                   {}, {file_path})
    ELSE ix

MatchesDeletion_AnyName(ev, new_file_info) ==
    /\ ev.info.size = new_file_info.size
    /\ Abs(ev.info.mtime - new_file_info.mtime) < MtimeTolerance

MatchesDeletion(ev, new_file_info) ==
    /\ ev.info.size = new_file_info.size
    /\ Abs(ev.info.mtime - new_file_info.mtime) < MtimeTolerance
    /\ Name(ev.path) = Name(new_file_info.path)

MatchesMissing(ix, tracked_info, new_file_info) ==
    /\ tracked_info.path # new_file_info.path
    /\ ~Exists(ix.disk, tracked_info.path)
    /\ Name(tracked_info.path) = Name(new_file_info.path)
    /\ tracked_info.size = new_file_info.size
    /\ Abs(tracked_info.mtime - new_file_info.mtime) < MissingMtimeTolerance

FirstIn(hits) ==
    IF hits = {} THEN 0 ELSE CHOOSE i \in hits : \A j \in hits : i <= j

find_matching_deletion(ix, new_file_info) ==
    LET d == FirstIn({i \in 1..Len(ix.recent_deletions) :
                        MatchesDeletion(ix.recent_deletions[i], new_file_info)})
        m == FirstIn({i \in 1..Len(ix.current_files) :
                        MatchesMissing(ix, ix.current_files[i], new_file_info)})
    IN  IF d > 0 THEN [kind |-> "deletion", path |-> ix.recent_deletions[d].path]
        ELSE IF m > 0 THEN [kind |-> "missing", path |-> ix.current_files[m].path]
        ELSE [kind |-> "none", path |-> <<>>]

(* a failure path that tracks the path all the same, with nothing known of
   the file *)
StatFailed_Tracks(ix, file_path) ==
    [index |-> [ix EXCEPT !.current_files =
                              DictSet(@, FileInfo(file_path, 0, 0))],
     result |-> <<>>]

(* lines 312-322: stat() raises OSError, which is logged; None is returned
   before the lock is taken *)
StatFailed(ix, file_path) == [index |-> ix, result |-> <<>>]

record_creation(ix, file_path, t) ==
    IF ~Exists(ix.disk, file_path)
    THEN StatFailed(ix, file_path)
    ELSE
    LET new_file_info == Stat(ix.disk, file_path)
        added == [ix EXCEPT
                     !.current_files = DictSet(@, new_file_info),
                     !.recent_creations = DictSet(@, IndexEvent(new_file_info, t))]
        move_detected == find_matching_deletion(added, new_file_info)
        old_path == move_detected.path
        searched ==
            IF move_detected.kind = "missing"
            THEN LET tracked_info ==
                         added.current_files[IndexOf(added.current_files, old_path)]
                 IN  [added EXCEPT
                         !.recent_deletions = DictSet(@, IndexEvent(tracked_info, t)),
                         !.current_files = DictDel(@, old_path)]
            ELSE added
    IN  IF move_detected.kind = "none"
        THEN [index |-> Noted(added, {file_path}, {}), result |-> <<>>]
        ELSE [index |-> Noted([searched EXCEPT
                                  !.recent_deletions = DictDel(@, old_path)],
                              {file_path},
                              IF move_detected.kind = "missing"
                              THEN {old_path} ELSE {}),
              result |-> <<old_path, file_path>>]

cleanup_old_events(ix, t) ==
    LET cutoff_time == t - CorrelationWindow
        Kept(d) == SelectRecs(d, {d[i].path : i \in {j \in 1..Len(d) :
                                                    ~(d[j].ts < cutoff_time)}})
    IN  [ix EXCEPT !.recent_deletions = Kept(@), !.recent_creations = Kept(@)]

IndexFrame ==
    UNCHANGED <<now, move_events, pending_deletes, pending_creates,
                recent_directory_moves, directory_processed_files, tree,
                raised, threads>>

ThreadStep == UNCHANGED <<calls, last_call, flushed>>

IndexCall(call, result) ==
    /\ index.built
    /\ calls < MaxCalls
    /\ calls' = calls + 1
    /\ last_call' = call
    /\ flushed' = result
    /\ IndexFrame

(* changes of the disk *)
FsChange(disk, gone, back) ==
    /\ index.built
    /\ index.fs_ops < MaxFsOps
    /\ index' = [Forgot(index, gone, back) EXCEPT
                    !.disk = disk, !.fs_ops = @ + 1]
    /\ ThreadStep
    /\ IndexFrame

FsWrite(p, w) ==
    /\ ~Exists(index.disk, p)
    /\ FsChange(index.disk \cup {FileInfo(p, w.size, w.mtime)}, {}, {p})

FsRemove(p) ==
    /\ Exists(index.disk, p)
    /\ FsChange(index.disk \ {Stat(index.disk, p)}, {p}, {})

(* a file is moved, as it is or rewritten on the way *)
Kept(p) ==
    {[size |-> f.size, mtime |-> f.mtime] : f \in {g \in index.disk : g.path = p}}

FsMove(p, q, w) ==
    /\ Exists(index.disk, p)
    /\ ~Exists(index.disk, q)
    /\ FsChange((index.disk \ {Stat(index.disk, p)})
                  \cup {FileInfo(q, w.size, w.mtime)},
                {p}, {q})

(* start() and rescan() on the caller's thread: the walk, then the swap *)
BeginScan(cont) ==
    [index EXCEPT !.main = [pos |-> "swap", new_files |-> Walk(index.disk),
                            cont |-> cont, after |-> last_call,
                            created |-> {}, deleted |-> {},
                            seen |-> index.fs_ops,
                            since |-> index.main.seen]]

Start ==
    /\ index.main.pos = "idle"
    /\ IndexCall(<<"start">>, <<>>)
    /\ index' = BeginScan("start")

Rescan ==
    /\ index.main.pos = "idle"
    /\ IndexCall(<<"rescan">>, <<>>)
    /\ index' = BeginScan("rescan")

(* rescan() during which stat() raises OSError for the files `errs`: each is
   logged and left out (lines 183-193), the walk goes on, and the swap
   follows as in any other scan *)
RescanFailing(errs) ==
    /\ index.main.pos = "idle"
    /\ errs # {}
    /\ errs \subseteq {f.path : f \in index.disk}
    /\ IndexCall(<<"rescan", errs>>, <<>>)
    /\ index' = [BeginScan("rescan") EXCEPT
                    !.main.new_files =
                        Walk({f \in index.disk : f.path \notin errs})]

MainSwap_DropsEvents ==
    /\ index.built
    /\ index.main.pos = "swap"
    /\ index' = [index EXCEPT !.current_files = index.main.new_files,
                              !.recent_deletions = <<>>,
                              !.recent_creations = <<>>,
                              !.main = Returned(index.main)]
    /\ ThreadStep
    /\ IndexFrame

MainSwap ==
    /\ index.built
    /\ index.main.pos = "swap"
    /\ LET swapped == [index EXCEPT !.current_files = index.main.new_files,
                                    !.main = Returned(index.main)]
       IN  index' =
             IF index.main.cont = "start" /\ index.rescan_interval > 0
             THEN [swapped EXCEPT !.stop_event = FALSE,
                                  !.loops = Append(@, LoopThread),
                                  !.rescan_thread = Len(index.loops) + 1]
             ELSE swapped
    /\ ThreadStep
    /\ IndexFrame

(* stop(): set the event, then join the thread for at most JoinTimeout *)
Stop ==
    /\ index.main.pos = "idle"
    /\ IndexCall(<<"stop">>, <<>>)
    /\ index' =
         IF index.rescan_thread # 0
         THEN [index EXCEPT
                  !.stop_event = TRUE,
                  !.loops[index.rescan_thread].signalled = TRUE,
                  !.main.pos = "join"]
         ELSE index

(* join returns when the thread has ended, or after the timeout when the
   thread is still inside a rescan *)
StopJoin ==
    /\ index.built
    /\ index.main.pos = "join"
    /\ index.loops[index.rescan_thread].pos # "wait"
    /\ index' = [index EXCEPT !.rescan_thread = 0,
                              !.main = Returned(index.main)]
    /\ ThreadStep
    /\ IndexFrame

(* _rescan_loop: wait, and unless the event is set rescan and clean up *)
LoopWake(i) ==
    /\ index.built
    /\ i \in 1..Len(index.loops)
    /\ index.loops[i].pos = "wait"
    /\ index' =
         IF index.stop_event
         THEN [index EXCEPT !.loops[i].pos = "exited"]
         ELSE [index EXCEPT !.loops[i].pos = "swap",
                            !.loops[i].new_files = Walk(index.disk),
                            !.loops[i].created = {},
                            !.loops[i].deleted = {}]
    /\ ThreadStep
    /\ IndexFrame

LoopSwap(i) ==
    /\ index.built
    /\ i \in 1..Len(index.loops)
    /\ index.loops[i].pos = "swap"
    /\ index' = [index EXCEPT !.current_files = index.loops[i].new_files,
                              !.loops[i].pos = "clean",
                              !.loops[i].new_files = <<>>,
                              !.loops[i].created = {},
                              !.loops[i].deleted = {}]
    /\ ThreadStep
    /\ IndexFrame

LoopClean(i) ==
    /\ index.built
    /\ i \in 1..Len(index.loops)
    /\ index.loops[i].pos = "clean"
    /\ index' = [cleanup_old_events(index, now) EXCEPT !.loops[i].pos = "wait"]
    /\ ThreadStep
    /\ IndexFrame

RecordDeletion(file_path) ==
    /\ IndexCall(<<"record_deletion", file_path>>, <<>>)
    /\ index' = record_deletion(index, file_path, now)

RecordCreation(file_path) ==
    LET r == record_creation(index, file_path, now)
    IN  /\ IndexCall(<<"record_creation", file_path>>, r.result)
        /\ index' = r.index

IndexBuilt(intervals) ==
    /\ now = 0
    /\ move_events = <<>>
    /\ pending_deletes = <<>>
    /\ pending_creates = <<>>
    /\ recent_directory_moves = <<>>
    /\ directory_processed_files = <<>>
    /\ flushed = <<>>
    /\ calls = 0
    /\ last_call = <<"none">>
    /\ tree = TreeIndex
    /\ raised = "none"
    /\ threads = <<>>
    /\ index \in {NewFileIndex(rescan_interval) : rescan_interval \in intervals}

(* an index scanned on demand, while the disk changes and the watcher
   records deletions and creations *)
InitIndex == IndexBuilt({0})

(* the same index watched for longer than its correlation window *)
TreeIndexLate ==
    [files |-> {AX, BX}, dirs |-> {DirA, DirBA},
     horizon |-> CorrelationWindow + 1,
     extensions |-> {ExtB}, ignore_patterns |-> <<PatIg>>]

InitIndexLate ==
    /\ now = 0
    /\ move_events = <<>>
    /\ pending_deletes = <<>>
    /\ pending_creates = <<>>
    /\ recent_directory_moves = <<>>
    /\ directory_processed_files = <<>>
    /\ flushed = <<>>
    /\ calls = 0
    /\ last_call = <<"none">>
    /\ tree = TreeIndexLate
    /\ raised = "none"
    /\ threads = <<>>
    /\ index = NewFileIndex(0)

NextIndex ==
    \/ \E p \in Files : \E w \in WrittenInfos : FsWrite(p, w)
    \/ \E p \in Files : FsRemove(p)
    \/ \E p \in Files : \E q \in Files :
         \E w \in Kept(p) \cup WrittenInfos : FsMove(p, q, w)
    \/ Rescan
    \/ MainSwap
    \/ \E p \in Files : RecordDeletion(p)
    \/ \E p \in Files : RecordCreation(p)
    \/ Tick

SpecIndex == InitIndex /\ [][NextIndex]_vars

SpecIndexLate == InitIndexLate /\ [][NextIndex]_vars

(* an index built with and without an extension allow-list, over a tree with
   a file below an ignored directory *)
IndexConfigs ==
    {[files |-> {AX, BX, BIX}, dirs |-> {DirA, DirBA}, horizon |-> 0,
      extensions |-> exts, ignore_patterns |-> <<PatIg>>] :
        exts \in {{ExtB}, {}}}

InitIndexConfigs ==
    /\ now = 0
    /\ move_events = <<>>
    /\ pending_deletes = <<>>
    /\ pending_creates = <<>>
    /\ recent_directory_moves = <<>>
    /\ directory_processed_files = <<>>
    /\ flushed = <<>>
    /\ calls = 0
    /\ last_call = <<"none">>
    /\ tree \in IndexConfigs
    /\ raised = "none"
    /\ threads = <<>>
    /\ index = NewFileIndex(0)

NextIndexConfigs ==
    \/ \E p \in Files : \E w \in WrittenInfos : FsWrite(p, w)
    \/ \E p \in Files : FsRemove(p)
    \/ \E p \in Files : \E q \in Files : \E w \in Kept(p) : FsMove(p, q, w)
    \/ Rescan
    \/ MainSwap
    \/ \E p \in Files : RecordDeletion(p)
    \/ \E p \in Files : RecordCreation(p)

SpecIndexConfigs == InitIndexConfigs /\ [][NextIndexConfigs]_vars

(* the index on a disk whose files can fail to be read during a scan *)
NextIndexIO ==
    \/ \E p \in Files : FsRemove(p)
    \/ \E p \in Files : \E q \in Files : \E w \in Kept(p) : FsMove(p, q, w)
    \/ Rescan
    \/ \E errs \in SUBSET Files : RescanFailing(errs)
    \/ MainSwap
    \/ \E p \in Files : RecordDeletion(p)
    \/ \E p \in Files : RecordCreation(p)

SpecIndexIO == InitIndex /\ [][NextIndexIO]_vars

(* an index started and stopped, with and without a rescan interval, while
   files are moved and removed *)
InitLifecycle == IndexBuilt({0, 1})

NextLifecycle ==
    \/ \E p \in Files : FsRemove(p)
    \/ \E p \in Files : \E q \in Files : \E w \in Kept(p) : FsMove(p, q, w)
    \/ Start
    \/ MainSwap
    \/ Stop
    \/ StopJoin
    \/ \E i \in 1..MaxCalls : LoopWake(i)
    \/ \E i \in 1..MaxCalls : LoopSwap(i)
    \/ \E i \in 1..MaxCalls : LoopClean(i)

SpecLifecycle == InitLifecycle /\ [][NextLifecycle]_vars

-----------------------------------------------------------------------------
(* The correlation lock.  correlation_lock is a threading.Lock (line 104),
   not re-entrant: a thread that acquires it while holding it blocks for
   ever.  Each call is the sequence of its steps, the entries and exits of
   its `with self.correlation_lock` blocks among them, and the lock is held
   by the thread whose `holds` is set. *)

Acquire == <<"acquire">>
Release == <<"release">>

(* a section that takes the lock again around the directory-move check of
   line 544, inside the block opened at line 402 *)
CorrelateSteps_Reacquire ==
    <<Acquire, Acquire, <<"correlate">>, Release, Release>>

(* _try_correlate_events, lines 400-614: one block, log_event inside it *)
CorrelateSteps == <<Acquire, <<"correlate">>, Release>>

(* _clean_expired_events, lines 365-398 *)
CleanSteps == <<Acquire, <<"clean">>, Release>>

(* on_moved of a directory, lines 215-236: per file, log_event outside the
   lock and the markers inside it *)
RECURSIVE ExpandSteps(_)
ExpandSteps(moved_files) ==
    IF moved_files = <<>> THEN <<>>
    ELSE <<<<"log", moved_files[1]>>, Acquire, <<"mark", moved_files[1]>>,
           Release>> \o ExpandSteps(Tail(moved_files))

LockProgram(call) ==
    IF call[1] = "flush_pending_events"
    THEN <<Acquire, <<"flush">>, Release>>
    ELSE IF call[1] = "on_moved" /\ call[4]
    THEN IF should_ignore_path(call[2]) \/ should_ignore_path(call[3])
         THEN <<>>
         ELSE <<Acquire, <<"record">>, Release>> \o ExpandSteps(call[5])
    ELSE IF call[1] = "on_moved"
    THEN IF \/ should_ignore_path(call[2]) \/ should_ignore_path(call[3])
            \/ (~should_track_file(call[2]) /\ ~should_track_file(call[3]))
         THEN <<>>
         ELSE <<Acquire, <<"check">>, Release, <<"emit">> >>
    ELSE IF Dropped(call[2], call[3]) THEN <<>>
    ELSE CleanSteps \o CorrelateSteps

LockCalls == ConcurrentCalls \cup {<<"flush_pending_events">>}

LockIdle == [pos |-> "idle", call |-> <<>>, todo |-> <<>>, holds |-> FALSE]

LockFree == \A t \in Threads : ~threads[t].holds

LockInvoke(t, call) ==
    /\ threads[t].pos = "idle"
    /\ call[1] = "on_moved" => call[2] # call[3]
    /\ (call[1] = "on_moved" /\ call[4])
          => call[5] \in find_files_by_extension(call[3])
    /\ threads' = [threads EXCEPT ![t] =
          [pos |-> "running", call |-> call, todo |-> LockProgram(call),
           holds |-> FALSE]]
    /\ UNCHANGED <<now, move_events, pending_deletes, pending_creates,
                   recent_directory_moves, directory_processed_files,
                   flushed, calls, last_call, tree, raised, index>>

(* what a step does to the handler's tables *)
StepTables(s, call, st, t) ==
    IF st[1] = "record" THEN SectionRecordDirectoryMove(s, call[2], call[3])
    ELSE IF st[1] = "log"
    THEN SectionLogEvent(s, ExpansionEvent(call[2], call[3], st[2], t))
    ELSE IF st[1] = "mark"
    THEN SectionMarkProcessed(s, ExpansionEvent(call[2], call[3], st[2], t), t)
    ELSE IF st[1] = "emit"
    THEN SectionLogEvent(s, MoveRec(DirectMoveType(call[2], call[3]),
                                    call[2], call[3], FALSE, FALSE, FALSE, t))
    ELSE IF st[1] = "clean" THEN SectionCleanExpired(s, t)
    ELSE IF st[1] = "correlate"
    THEN IF call[1] = "on_deleted"
         THEN SectionCorrelateDelete(s, call[2], call[3], t)
         ELSE SectionCorrelateCreate(s, call[2], call[3], t)
    ELSE IF st[1] = "flush"
    THEN [s EXCEPT !.pending_creates = <<>>, !.pending_deletes = <<>>]
    ELSE s

(* thread t after its next step; the return of line 261 leaves its block,
   releasing the lock *)
Advanced(t) ==
    LET st == Head(threads[t].todo)
        call == threads[t].call
    IN  IF threads[t].todo = <<>> THEN [threads[t] EXCEPT !.pos = "done"]
        ELSE [threads[t] EXCEPT
                 !.holds = IF st = Acquire THEN TRUE
                           ELSE IF st = Release THEN FALSE ELSE @,
                 !.todo =
                     IF /\ st[1] = "check"
                        /\ PartOfDirectoryMove(recent_directory_moves,
                                               call[2], call[3])
                     THEN <<Release>> ELSE Tail(@)]

(* thread t can go on: it is inside a call and is not waiting for a lock
   that is held *)
Runnable(t) ==
    /\ threads[t].pos = "running"
    /\ (threads[t].todo # <<>> /\ Head(threads[t].todo) = Acquire) => LockFree

(* the next step of thread t *)
LockStep(t) ==
    /\ Runnable(t)
    /\ threads[t].todo # <<>>
    /\ LET st == Head(threads[t].todo)
       IN  /\ \E s \in {StepTables(Tables, threads[t].call, st, now)} :
                 SetTables(s)
           /\ flushed' = IF st[1] = "flush"
                         THEN Unmatched(pending_creates \o pending_deletes)
                         ELSE flushed
    /\ threads' = [threads EXCEPT ![t] = Advanced(t)]
    /\ UNCHANGED <<now, calls, last_call, tree, raised, index>>

LockReturn(t) ==
    /\ Runnable(t)
    /\ threads[t].todo = <<>>
    /\ threads' = [threads EXCEPT ![t] = Advanced(t)]
    /\ UNCHANGED <<now, move_events, pending_deletes, pending_creates,
                   recent_directory_moves, directory_processed_files,
                   flushed, calls, last_call, tree, raised, index>>

(* thread t is scheduled: the step of LockStep(t) or LockReturn(t), as the
   thread itself sees it *)
Scheduled(t) ==
    /\ Runnable(t)
    /\ threads' = [threads EXCEPT ![t] = Advanced(t)]

InitLock ==
    /\ now = 0
    /\ move_events = <<>>
    /\ pending_deletes = <<>>
    /\ pending_creates = <<>>
    /\ recent_directory_moves = <<>>
    /\ directory_processed_files = <<>>
    /\ flushed = <<>>
    /\ calls = 0
    /\ last_call = <<"none">>
    /\ tree = TreeDirMove
    /\ raised = "none"
    /\ threads = [t \in Threads |-> LockIdle]
    /\ index = NoIndex

NextLock ==
    \/ \E t \in Threads : \E call \in LockCalls : LockInvoke(t, call)
    \/ \E t \in Threads : LockStep(t)
    \/ \E t \in Threads : LockReturn(t)

(* a thread that can take a step is scheduled in the end; a thread waiting
   for the lock gets it once it stays free *)
SpecLock ==
    /\ InitLock
    /\ [][NextLock]_vars
    /\ \A t \in Threads : WF_threads(Scheduled(t))

-----------------------------------------------------------------------------
(* Vocabulary of the properties *)

Called(op) == calls' = calls + 1 /\ last_call'[1] = op

EventSet == {move_events[i] : i \in 1..Len(move_events)}

(* the path matches an ignore pattern or, for a file, has an extension
   outside the allow-list *)
Filtered(p, is_directory) ==
    \/ \E i \in 1..Len(ignore_patterns) :
          ~Malformed(ignore_patterns[i]) /\ Contains(p, ignore_patterns[i])
    \/ (~is_directory /\ extensions # {} /\ Lower(Suffix(p)) \notin extensions)

(* the event e was emitted by the expansion of a directory move: a recorded
   directory move maps its old path to its new path and both paths carry the
   marker written with it *)
DirectoryMoveEmitted(e) ==
    /\ e.type = "file_moved" /\ ~e.correlated /\ ~e.chain_move
    /\ \E i \in 1..Len(recent_directory_moves) :
          /\ IsUnder(e.new_path, recent_directory_moves[i].new_dir)
          /\ e.old_path =
                JoinPath(recent_directory_moves[i].path,
                         RelativeTo(e.new_path,
                                    recent_directory_moves[i].new_dir))
    /\ \A p \in {e.old_path, e.new_path} :
          \E j \in 1..Len(directory_processed_files) :
              /\ directory_processed_files[j].path = p
              /\ directory_processed_files[j].ts = e.timestamp

(* no marker, directory-move record or emitted event involves the path *)
NoTrace(p) ==
    /\ p \notin Keys(directory_processed_files)
    /\ \A i \in 1..Len(recent_directory_moves) :
          /\ ~StartsWith(p, recent_directory_moves[i].path)
          /\ ~StartsWith(p, recent_directory_moves[i].new_dir)
    /\ \A e \in EventSet : e.old_path # p /\ e.new_path # p

(* a recent marker or event names another location of p's file name *)
ChainCandidate(p) ==
    \/ \E i \in 1..Len(directory_processed_files) :
          /\ now - directory_processed_files[i].ts < 2 * Timeout
          /\ Name(directory_processed_files[i].path) = Name(p)
          /\ directory_processed_files[i].path # p
    \/ \E e \in EventSet :
          /\ now - e.timestamp < 2 * Timeout
          /\ Name(e.new_path) = Name(p)
          /\ e.new_path # p

-----------------------------------------------------------------------------
(* C1: for every delete(A) followed within correlation_window by create(B)
   with the same filename and different parents, where no marker,
   directory-move record or earlier event involves either path, exactly one
   correlated 'moved' MoveEvent(A, B) is appended, of directory kind iff the
   create is a directory create, and A leaves the PendingDeletion table. *)
C1_AsClaimed ==
    [][\A A \in Keys(pending_deletes), B \in Files \cup Dirs :
          (/\ Called("on_created") /\ last_call'[2] = B
           /\ now - pending_deletes[IndexOf(pending_deletes, A)].timestamp_unix
                 <= Timeout
           /\ Name(A) = Name(B) /\ Parent(A) # Parent(B)
           /\ ~should_ignore_path(B)
           /\ NoTrace(A) /\ NoTrace(B)
           /\ B \notin Keys(pending_deletes)
           /\ {A, B} \cap Keys(pending_creates) = {})
          => /\ move_events' = Append(move_events,
                   MoveRec(IF last_call'[3] THEN "directory_moved"
                                             ELSE "file_moved",
                           A, B, last_call'[3], TRUE, FALSE, now))
             /\ A \notin Keys(pending_deletes')]_vars

(* C1 as amended: the same, provided no pending deletion inserted before A
   is still inside the window with B's extension (the scan takes the first
   entry that matches, and an entry of unknown size matches on extension and
   timing alone) and, for a file, no recent marker or event names another
   location of B's filename (the chain check runs first). *)
C1_FirstPendingCorrelates ==
    [][\A A \in Keys(pending_deletes), B \in Files \cup Dirs :
          (/\ Called("on_created") /\ last_call'[2] = B
           /\ now - pending_deletes[IndexOf(pending_deletes, A)].timestamp_unix
                 <= Timeout
           /\ Name(A) = Name(B) /\ Parent(A) # Parent(B)
           /\ ~should_ignore_path(B)
           /\ NoTrace(A) /\ NoTrace(B)
           /\ B \notin Keys(pending_deletes)
           /\ {A, B} \cap Keys(pending_creates) = {}
           /\ \A j \in 1..(IndexOf(pending_deletes, A) - 1) :
                 \/ now - pending_deletes[j].timestamp_unix > Timeout
                 \/ Lower(Suffix(pending_deletes[j].path)) # Lower(Suffix(B))
           /\ (last_call'[3] \/ ~ChainCandidate(B)))
          => /\ move_events' = Append(move_events,
                   MoveRec(IF last_call'[3] THEN "directory_moved"
                                             ELSE "file_moved",
                           A, B, last_call'[3], TRUE, FALSE, now))
             /\ A \notin Keys(pending_deletes')]_vars

C1_Witness ==
    /\ last_call[1] = "on_created"
    /\ Len(pending_deletes) > 0
    /\ Len(move_events) > 0
    /\ LET e == move_events[Len(move_events)]
       IN  /\ e.new_path = last_call[2]
           /\ e.type = "file_moved"
           /\ e.correlated /\ ~e.chain_move
           /\ Name(e.old_path) = Name(e.new_path)
           /\ e.old_path \notin Keys(pending_deletes)

-----------------------------------------------------------------------------
(* C2: when create(B) arrives more than correlation_window after delete(A),
   no correlated MoveEvent is emitted and a subsequent flush() reports both
   notifications, one standalone delete for A and one standalone create for
   B.  flush() returns the two pending tables, so this asks that both are in
   the tables once create(B) has been handled.  The handler holds nothing but
   the pending delete of A when create(B) arrives. *)
C2_AsClaimed ==
    [][\A B \in Files :
          (/\ Called("on_created") /\ last_call'[2] = B /\ ~last_call'[3]
           /\ ~should_ignore_path(B) /\ should_track_file(B)
           /\ Len(pending_deletes) = 1 /\ ~pending_deletes[1].is_directory
           /\ now - pending_deletes[1].timestamp_unix > Timeout
           /\ pending_deletes[1].path # B
           /\ pending_creates = <<>> /\ move_events = <<>>
           /\ directory_processed_files = <<>>
           /\ recent_directory_moves = <<>>)
          => /\ move_events' = move_events
             /\ LET report == Unmatched(pending_creates' \o pending_deletes')
                IN  /\ \E i \in 1..Len(report) :
                          /\ report[i].path = pending_deletes[1].path
                          /\ report[i].type = "file_deleted"
                    /\ \E i \in 1..Len(report) :
                          /\ report[i].path = B
                          /\ report[i].type = "file_created"]_vars

-----------------------------------------------------------------------------
(* C3: no emitted MoveEvent has an old_path or new_path that is filtered,
   that is, one that matches an ignore pattern or, for a file, has an
   extension outside the allow-list. *)
C3_AsClaimed ==
    \A e \in EventSet :
        /\ ~Filtered(e.old_path, e.is_directory)
        /\ ~Filtered(e.new_path, e.is_directory)

-----------------------------------------------------------------------------
(* C4: every unfiltered direct move notification on_moved(old, new) appends
   exactly one MoveEvent(old, new) to the event history, whatever the prior
   state of the handler, and the event is 'renamed' if and only if
   parent(old) = parent(new).  Stated for file moves whose two paths both
   pass the filter. *)
C4_AsClaimed ==
    [][\A old \in Files, new \in Files :
          (/\ Called("on_moved")
           /\ last_call' = <<"on_moved", old, new, FALSE>>
           /\ ~Filtered(old, FALSE) /\ ~Filtered(new, FALSE))
          => move_events' = Append(move_events,
                 MoveRec(IF Parent(old) = Parent(new) THEN "file_renamed"
                                                      ELSE "file_moved",
                         old, new, FALSE, FALSE, FALSE, now))]_vars

(* C4 as amended: every unfiltered direct file move notification
   on_moved(old, new) that does not repeat a recorded directory move (no
   DirectoryMoveRecord has old under its old directory and new under its new
   directory with the same relative path) appends exactly one
   MoveEvent(old, new), 'renamed' if and only if parent(old) = parent(new). *)
C4_DirectFileMove ==
    [][\A old \in Files, new \in Files :
          (/\ Called("on_moved")
           /\ last_call' = <<"on_moved", old, new, FALSE>>
           /\ ~Filtered(old, FALSE) /\ ~Filtered(new, FALSE)
           /\ ~PartOfDirectoryMove(recent_directory_moves, old, new))
          => move_events' = Append(move_events,
                 MoveRec(IF Parent(old) = Parent(new) THEN "file_renamed"
                                                      ELSE "file_moved",
                         old, new, FALSE, FALSE, FALSE, now))]_vars

C4_Witness ==
    /\ last_call[1] = "on_moved"
    /\ ~last_call[4]
    /\ recent_directory_moves # <<>>
    /\ Len(move_events) > 1
    /\ LET e == move_events[Len(move_events)]
       IN  /\ e.old_path = last_call[2] /\ e.new_path = last_call[3]
           /\ e.type = "file_renamed"
           /\ Parent(e.old_path) = Parent(e.new_path)

-----------------------------------------------------------------------------
(* C5: after a directory move D1->D2 that emitted MoveEvent(D1/x, D2/x) for a
   tracked file x, any subsequent raw delete(D1/x) followed by create(D2/x)
   emits zero additional MoveEvents and leaves no PendingDeletion or
   PendingCreation entry for those paths.  Stated at the create, the call
   before it being the delete, with no entry for either path that is older
   than the directory move. *)
C5_AsClaimed ==
    [][\A e \in EventSet :
          (/\ DirectoryMoveEmitted(e)
           /\ last_call = <<"on_deleted", e.old_path, FALSE>>
           /\ Called("on_created")
           /\ last_call' = <<"on_created", e.new_path, FALSE>>
           /\ {e.old_path, e.new_path} \cap Keys(pending_creates) = {}
           /\ e.new_path \notin Keys(pending_deletes)
           /\ \A i \in 1..Len(pending_deletes) :
                 pending_deletes[i].timestamp_unix > e.timestamp)
          => /\ move_events' = move_events
             /\ {e.old_path, e.new_path}
                  \cap (Keys(pending_deletes') \cup Keys(pending_creates'))
                  = {}]_vars

(* C5 as amended: after a directory move D1->D2 that emitted
   MoveEvent(D1/x, D2/x), a raw delete(D1/x) or create(D2/x) handled less than
   2*correlation_window after that move emits no MoveEvent and stores no
   PendingDeletion or PendingCreation entry. *)
C5_SuppressedWhileMarked ==
    [][\A e \in EventSet :
          (/\ DirectoryMoveEmitted(e)
           /\ now - e.timestamp < 2 * Timeout
           /\ calls' = calls + 1
           /\ \/ last_call' = <<"on_deleted", e.old_path, FALSE>>
              \/ last_call' = <<"on_created", e.new_path, FALSE>>)
          => /\ move_events' = move_events
             /\ Keys(pending_deletes') \subseteq Keys(pending_deletes)
             /\ Keys(pending_creates') \subseteq Keys(pending_creates)]_vars

C5_Witness ==
    /\ calls = 3
    /\ Len(move_events) = 1
    /\ DirectoryMoveEmitted(move_events[1])
    /\ now - move_events[1].timestamp < 2 * Timeout
    /\ last_call = <<"on_created", move_events[1].new_path, FALSE>>
    /\ pending_deletes = <<>> /\ pending_creates = <<>>

-----------------------------------------------------------------------------
(* C6: when a MoveEvent with new_path P1 was emitted and create(P2) arrives
   with the same filename as P1, P2 # P1, within 2*correlation_window and with
   no intervening delete, exactly one MoveEvent(old = P1, new = P2) flagged as
   a chain move is emitted and P2 is not stored as an unmatched
   PendingCreation.  Stated for P1's event being the latest event emitted,
   with no deletion pending and no marker on P2. *)
C6_AsClaimed ==
    [][\A P2 \in Files :
          (/\ Called("on_created")
           /\ last_call' = <<"on_created", P2, FALSE>>
           /\ ~Filtered(P2, FALSE)
           /\ move_events # <<>>
           /\ Name(move_events[Len(move_events)].new_path) = Name(P2)
           /\ move_events[Len(move_events)].new_path # P2
           /\ now - move_events[Len(move_events)].timestamp < 2 * Timeout
           /\ pending_deletes = <<>> /\ last_call[1] # "on_deleted"
           /\ P2 \notin Keys(directory_processed_files))
          => /\ move_events' = Append(move_events,
                   MoveRec(IF Parent(move_events[Len(move_events)].new_path)
                                = Parent(P2)
                           THEN "file_renamed" ELSE "file_moved",
                           move_events[Len(move_events)].new_path, P2,
                           FALSE, TRUE, TRUE, now))
             /\ P2 \notin Keys(pending_creates')]_vars

-----------------------------------------------------------------------------
(* C7: every MoveEvent in the emitted history satisfies old_path # new_path,
   in every reachable state and for every detection method. *)
C7_AsClaimed == \A e \in EventSet : e.old_path # e.new_path

-----------------------------------------------------------------------------
(* C8: every MoveEvent in the emitted history has kind 'renamed' if and only
   if parent(old_path) = parent(new_path), and 'moved' otherwise, for every
   detection method. *)
C8_RenamedIffSameParent ==
    \A e \in EventSet :
        IF Parent(e.old_path) = Parent(e.new_path)
        THEN e.type \in {"file_renamed", "directory_renamed"}
        ELSE e.type \in {"file_moved", "directory_moved"}

C8_Witness ==
    \E e1 \in EventSet, e2 \in EventSet :
        /\ e1.correlated /\ e1.type = "file_renamed"
        /\ e1.old_path # e1.new_path
        /\ ~e2.correlated /\ e2.type = "file_moved"

-----------------------------------------------------------------------------
(* C9: flush() returns every entry then held in the PendingDeletion and
   PendingCreation tables, each marked unmatched and each as a standalone
   delete or create event, appends nothing to the MoveEvent history and
   leaves both tables empty; a second flush() with no notification in between
   returns nothing. *)
C9_FlushReportsAndClears ==
    [][Called("flush_pending_events") =>
          /\ Len(flushed') = Len(pending_deletes) + Len(pending_creates)
          /\ \A i \in 1..Len(pending_deletes) :
                \E j \in 1..Len(flushed') :
                    /\ flushed'[j].path = pending_deletes[i].path
                    /\ flushed'[j].is_directory
                         = pending_deletes[i].is_directory
                    /\ flushed'[j].type \in {"file_deleted",
                                             "directory_deleted"}
          /\ \A i \in 1..Len(pending_creates) :
                \E j \in 1..Len(flushed') :
                    /\ flushed'[j].path = pending_creates[i].path
                    /\ flushed'[j].is_directory
                         = pending_creates[i].is_directory
                    /\ flushed'[j].type \in {"file_created",
                                             "directory_created"}
          /\ \A j \in 1..Len(flushed') : flushed'[j].unmatched
          /\ move_events' = move_events
          /\ pending_deletes' = <<>> /\ pending_creates' = <<>>
          /\ (last_call[1] = "flush_pending_events" => flushed' = <<>>)]_vars

C9_Witness ==
    /\ last_call[1] = "flush_pending_events"
    /\ Len(flushed) = 2
    /\ \E i, j \in 1..Len(flushed) :
          /\ flushed[i].type = "file_deleted"
          /\ flushed[j].type = "file_created"
    /\ pending_deletes = <<>> /\ pending_creates = <<>>

-----------------------------------------------------------------------------
(* C10: the pending tables are asymmetric.  A delete notification never
   appends a MoveEvent, whatever the PendingCreation table holds; when its
   path passes the filter and carries no valid marker it is stored in
   PendingDeletion with the current time; and an entry leaves PendingCreation
   only by expiry or by flush. *)
C10_DeleteIgnoresPendingCreates ==
    [][/\ Called("on_deleted") =>
             /\ move_events' = move_events
             /\ \A i \in 1..Len(pending_creates) :
                   now - pending_creates[i].timestamp_unix <= Timeout
                   => \E j \in 1..Len(pending_creates') :
                          pending_creates'[j] = pending_creates[i]
             /\ (/\ ~Filtered(last_call'[2], last_call'[3])
                 /\ \A k \in 1..Len(directory_processed_files) :
                       \/ directory_processed_files[k].path # last_call'[2]
                       \/ now - directory_processed_files[k].ts >= 2 * Timeout)
                => \E j \in 1..Len(pending_deletes') :
                       /\ pending_deletes'[j].path = last_call'[2]
                       /\ pending_deletes'[j].timestamp_unix = now
       /\ \A i \in 1..Len(pending_creates) :
             pending_creates[i].path \notin Keys(pending_creates')
             => \/ Called("flush_pending_events")
                \/ now - pending_creates[i].timestamp_unix > Timeout]_vars

C10_Witness ==
    /\ last_call[1] = "on_deleted"
    /\ move_events = <<>>
    /\ last_call[2] \in Keys(pending_deletes)
    /\ \E i \in 1..Len(pending_creates) :
          /\ Name(pending_creates[i].path) = Name(last_call[2])
          /\ pending_creates[i].path # last_call[2]
          /\ now - pending_creates[i].timestamp_unix <= Timeout

-----------------------------------------------------------------------------
(* C11: the correlator entry points are serialized under one lock: for every
   interleaving of two concurrent calls, once both have returned the pending
   tables, markers, directory-move records and the emitted event sequence
   equal those of one of the two serial orders of the calls. *)
C11_AsClaimed ==
    (\A t \in Threads : threads[t].pos = "done")
    => \/ Tables = RunAlone(RunAlone(EmptyTables, threads[1].call, now),
                            threads[2].call, now)
       \/ Tables = RunAlone(RunAlone(EmptyTables, threads[2].call, now),
                            threads[1].call, now)

-----------------------------------------------------------------------------
(* C12: record_deletion and record_creation interleaved with a rescan leave
   the snapshot some serial order of the two would leave: when a rescan
   swaps its snapshot in, a path recorded as created since the walk, still
   on the disk and trackable, is in the snapshot, and a path recorded as
   deleted since the walk and not on the disk is not. *)
C12_AsClaimed ==
    [][(index.main.pos = "swap" /\ index'.main.pos = "idle")
       => /\ \A p \in index.main.created :
                p \in Keys(Walk(index.disk))
                => p \in Keys(index'.current_files)
          /\ \A p \in index.main.deleted :
                ~Exists(index.disk, p)
                => p \notin Keys(index'.current_files)]_vars

(* the second of two rescan() calls, walked and about to swap, with no call
   and no change of the disk since the first one walked *)
SecondRescan ==
    /\ index.built
    /\ index.main.pos = "swap"
    /\ index.main.cont = "rescan"
    /\ index.main.after = <<"rescan">>
    /\ last_call = <<"rescan">>
    /\ index.main.since = index.fs_ops

(* C13: rescan() is idempotent on an unchanged disk: called twice with no
   change of the disk and no other call in between, the second call leaves
   the snapshot as the first left it, and no step of either call changes
   the recent deletions or the recent creations. *)
C13_RescanIdempotent ==
    [][/\ (SecondRescan /\ index'.main.pos = "idle")
          => index'.current_files = index.current_files
       /\ (index.built /\ index'.main.pos # index.main.pos)
          => /\ index'.recent_deletions = index.recent_deletions
             /\ index'.recent_creations = index.recent_creations]_vars

C13_Witness ==
    /\ SecondRescan
    /\ index.current_files # <<>>
    /\ index.recent_creations # <<>>

(* a recent deletion and a created file that are one file moved, and a
   snapshot entry that is a file missing from the disk and found again *)
SameFile(a, b, tolerance) ==
    /\ a.size = b.size
    /\ Name(a.path) = Name(b.path)
    /\ a.mtime - b.mtime < tolerance
    /\ b.mtime - a.mtime < tolerance

DeletionsOf(created) ==
    {i \in 1..Len(index.recent_deletions) :
        SameFile(index.recent_deletions[i].info, created, 2)}

MissingOf(created) ==
    {i \in 1..Len(index.current_files) :
        /\ index.current_files[i].path # created.path
        /\ ~Exists(index.disk, index.current_files[i].path)
        /\ SameFile(index.current_files[i], created, 5)}

(* C14: record_creation(path) of a readable file inserts the path into the
   snapshot and into the recent creations; if a recent deletion has the
   file's size, a modification time within 2 seconds of its own and its
   file name, that deletion is removed and (old_path, path) is returned; if
   there is neither such a deletion nor a missing snapshot entry to fall
   back on, nothing is returned. *)
C14_RecordCreation ==
    [][(Called("record_creation") /\ Exists(index.disk, last_call'[2]))
       => LET path == last_call'[2]
              created == Stat(index.disk, path)
          IN  /\ path \in Keys(index'.current_files)
              /\ path \in Keys(index'.recent_creations)
              /\ DeletionsOf(created) # {}
                 => \E i \in DeletionsOf(created) :
                       LET old_path == index.recent_deletions[i].path
                       IN  /\ flushed' = <<old_path, path>>
                           /\ index'.recent_deletions
                                = DictDel(index.recent_deletions, old_path)
              /\ (DeletionsOf(created) = {} /\ MissingOf(created) = {})
                 => /\ flushed' = <<>>
                    /\ index'.recent_deletions = index.recent_deletions]_vars

(* a creation matched with a recent deletion of a file that is still on the
   disk, which no fallback can explain *)
C14_Witness ==
    /\ index.built
    /\ last_call[1] = "record_creation"
    /\ flushed # <<>>
    /\ flushed[1] # flushed[2]
    /\ Exists(index.disk, flushed[1])
    /\ flushed[2] \in Keys(index.current_files)
    /\ flushed[2] \in Keys(index.recent_creations)

(* C15: the directory-move fallback: when no recent deletion matches a
   created file but the snapshot holds another path that is no longer on
   the disk, with the file's name, its size and a modification time within
   5 seconds of its own, record_creation(path) returns (old_path, path) and
   old_path is then absent from the snapshot and present in the recent
   deletions. *)
C15_AsClaimed ==
    [][(/\ Called("record_creation")
        /\ Exists(index.disk, last_call'[2])
        /\ DeletionsOf(Stat(index.disk, last_call'[2])) = {}
        /\ MissingOf(Stat(index.disk, last_call'[2])) # {})
       => \E i \in MissingOf(Stat(index.disk, last_call'[2])) :
             LET old_path == index.current_files[i].path
             IN  /\ flushed' = <<old_path, last_call'[2]>>
                 /\ old_path \notin Keys(index'.current_files)
                 /\ old_path \in Keys(index'.recent_deletions)]_vars

(* C16: record_deletion(path) of a path in the snapshot moves its entry
   into the recent deletions with the current time and removes it from the
   snapshot; of a path not in the snapshot it leaves the snapshot, the
   recent deletions and the recent creations unchanged. *)
C16_RecordDeletion ==
    [][Called("record_deletion")
       => LET path == last_call'[2]
          IN  IF path \in Keys(index.current_files)
              THEN LET tracked ==
                           index.current_files[IndexOf(index.current_files, path)]
                   IN  /\ path \in Keys(index'.recent_deletions)
                       /\ \A i \in 1..Len(index'.recent_deletions) :
                             index'.recent_deletions[i].path = path
                             => /\ index'.recent_deletions[i].info = tracked
                                /\ index'.recent_deletions[i].ts = now
                       /\ index'.current_files
                            = DictDel(index.current_files, path)
                       /\ index'.recent_creations = index.recent_creations
              ELSE /\ index'.current_files = index.current_files
                   /\ index'.recent_deletions = index.recent_deletions
                   /\ index'.recent_creations = index.recent_creations]_vars

(* a deletion recorded after the clock has advanced, of one of two files in
   the snapshot *)
C16_Witness ==
    /\ index.built
    /\ last_call[1] = "record_deletion"
    /\ now > 0
    /\ \E i \in 1..Len(index.recent_deletions) :
          /\ index.recent_deletions[i].path = last_call[2]
          /\ index.recent_deletions[i].ts = now
    /\ last_call[2] \notin Keys(index.current_files)
    /\ index.current_files # <<>>

(* C17: the lifecycle of the index: start() has swapped in one full scan
   when it returns and has started a rescan loop if and only if
   rescan_interval > 0; a loop that stop() has signalled begins no further
   rescan; and stop() on an index with no loop changes nothing. *)
C17_AsClaimed ==
    [][/\ (/\ index.main.pos = "swap"
           /\ index.main.cont = "start"
           /\ index'.main.pos = "idle")
          => /\ index'.current_files = index.main.new_files
             /\ Len(index'.loops) = Len(index.loops) + 1
                <=> index.rescan_interval > 0
       /\ \A i \in 1..Len(index.loops) :
             (index.loops[i].signalled /\ index.loops[i].pos = "wait")
             => index'.loops[i].pos \in {"wait", "exited"}
       /\ (Called("stop") /\ index.rescan_thread = 0)
          => index' = index]_vars

(* C18: a directory move old -> new, under every filter configuration and
   so also without an extension allow-list, when every file is trackable,
   appends exactly one file_moved event (old/rel, new/rel) for each
   trackable file that is at new/rel below the new directory and no other
   event, and marks old/rel and new/rel as processed at the current time. *)
C18_AsClaimed ==
    [][(/\ Called("on_moved")
        /\ last_call'[4]
        /\ ~Filtered(last_call'[2], TRUE)
        /\ ~Filtered(last_call'[3], TRUE))
       => LET old == last_call'[2]
              new == last_call'[3]
              trackable == {f \in last_call'[5] : should_track_file(f)}
              added == SubSeq(move_events', Len(move_events) + 1,
                              Len(move_events'))
          IN  /\ Len(move_events') = Len(move_events) + Cardinality(trackable)
              /\ SubSeq(move_events', 1, Len(move_events)) = move_events
              /\ \A f \in trackable :
                    /\ \E i \in 1..Len(added) :
                          added[i] = MoveRec("file_moved",
                                             JoinPath(old, RelativeTo(f, new)),
                                             f, FALSE, FALSE, FALSE, now)
                    /\ \A q \in {f, JoinPath(old, RelativeTo(f, new))} :
                          \E k \in 1..Len(directory_processed_files') :
                             /\ directory_processed_files'[k].path = q
                             /\ directory_processed_files'[k].ts = now]_vars

(* C19: a directory move never appends a directory event to the event
   history: the history keeps what it held and gains only file events, one
   for each file found below the new directory. *)
C19_NoDirectoryEvent ==
    [][(Called("on_moved") /\ last_call'[4])
       => /\ Len(move_events') >= Len(move_events)
          /\ SubSeq(move_events', 1, Len(move_events)) = move_events
          /\ \A i \in (Len(move_events) + 1)..Len(move_events') :
                /\ ~move_events'[i].is_directory
                /\ move_events'[i].type = "file_moved"
                /\ move_events'[i].new_path \in last_call'[5]]_vars

(* a directory move that was recorded and appended a file event *)
C19_Witness ==
    /\ last_call[1] = "on_moved"
    /\ last_call[4]
    /\ \E i \in 1..Len(recent_directory_moves) :
          /\ recent_directory_moves[i].path = last_call[2]
          /\ recent_directory_moves[i].new_dir = last_call[3]
    /\ move_events # <<>>
    /\ move_events[Len(move_events)].new_path \in last_call[5]
    /\ IsUnder(move_events[Len(move_events)].old_path, last_call[2])

(* C20: a malformed ignore pattern is skipped and never fatal: with one
   configured, every on_moved, on_deleted and on_created call returns
   without raising, and a path that matches one of the well-formed patterns
   is still ignored. *)
C20_AsClaimed ==
    [][(Called("on_moved") \/ Called("on_deleted") \/ Called("on_created"))
       => /\ raised' = "none"
          /\ Filtered(last_call'[2], TRUE)
             => UNCHANGED <<move_events, pending_deletes, pending_creates,
                            recent_directory_moves,
                            directory_processed_files>>]_vars

-----------------------------------------------------------------------------
(* the event e has the shape of a directory-move expansion: an uncorrelated
   'file_moved' whose old and new paths are the same file below two
   directories, both paths carrying the marker written with it *)
ExpansionEmitted(e) ==
    /\ e.type = "file_moved" /\ ~e.correlated /\ ~e.chain_move
    /\ \E d1 \in Dirs, d2 \in Dirs :
          /\ d1 # d2
          /\ IsUnder(e.old_path, d1) /\ IsUnder(e.new_path, d2)
          /\ RelativeTo(e.old_path, d1) = RelativeTo(e.new_path, d2)
    /\ \A p \in {e.old_path, e.new_path} :
          \E j \in 1..Len(directory_processed_files) :
              /\ directory_processed_files[j].path = p
              /\ directory_processed_files[j].ts = e.timestamp

(* the markers of both paths of e are valid at time t *)
MarkersValid(e, t) ==
    \A p \in {e.old_path, e.new_path} :
        RecentlyProcessed(directory_processed_files, p, t)

(* C21: after a directory move D1->D2 has emitted MoveEvent(D1/x, D2/x), a
   later direct file move notification D1/x -> D2/x emits no further
   MoveEvent, whatever directory moves were recorded in between, for as long
   as the markers of both paths are valid. *)
C21_AsClaimed ==
    [][\A e \in EventSet :
          (/\ ExpansionEmitted(e)
           /\ MarkersValid(e, now)
           /\ Called("on_moved")
           /\ last_call' = <<"on_moved", e.old_path, e.new_path, FALSE>>)
          => move_events' = move_events]_vars

-----------------------------------------------------------------------------
(* old and new differ in both the parent directory and the filename *)
MovePlusRename(old, new) ==
    Parent(old) # Parent(new) /\ Name(old) # Name(new)

(* the events appended by the step *)
Appended ==
    {move_events'[k] : k \in (Len(move_events) + 1)..Len(move_events')}

(* C22: a move combined with a rename, surfacing as a delete of the old path
   and a create of the new path that differs from it in both the parent
   directory and the filename, is not correlated: the create records no
   'file_moved' event from the old path to the new path. *)
C22_AsClaimed ==
    [][\A old \in Keys(pending_deletes), new \in Files :
          (/\ MovePlusRename(old, new)
           /\ Called("on_created")
           /\ last_call' = <<"on_created", new, FALSE>>)
          => ~\E e \in Appended :
                 e.type = "file_moved" /\ e.old_path = old /\ e.new_path = new]_vars

(* C22 as amended: such a pair is correlated like any other.  Whatever the
   create records from the old path to the new path is one correlated
   'file_moved' event that is neither a rename nor a chain move, recorded
   only for a delete of the same extension still inside the correlation
   window, and the old path then leaves the pending deletes. *)
C22_MovePlusRename ==
    [][\A old \in Keys(pending_deletes), new \in Files :
          (/\ MovePlusRename(old, new)
           /\ Called("on_created")
           /\ last_call' = <<"on_created", new, FALSE>>)
          => LET d == pending_deletes[IndexOf(pending_deletes, old)]
                 hits == {e \in Appended :
                             e.old_path = old /\ e.new_path = new}
             IN  /\ hits \subseteq
                       {MoveRec("file_moved", old, new, FALSE, TRUE, FALSE, now)}
                 /\ hits # {} =>
                       /\ move_events' \in {Append(move_events, e) : e \in hits}
                       /\ now - d.timestamp_unix <= Timeout
                       /\ Lower(Suffix(old)) = Lower(Suffix(new))
                       /\ old \notin Keys(pending_deletes')]_vars

C22_Witness ==
    /\ last_call[1] = "on_created"
    /\ Len(move_events) > 0
    /\ LET e == move_events[Len(move_events)]
       IN  /\ e.new_path = last_call[2]
           /\ MovePlusRename(e.old_path, e.new_path)
           /\ e.type = "file_moved" /\ e.correlated /\ ~e.chain_move
           /\ e.old_path \notin Keys(pending_deletes)

-----------------------------------------------------------------------------
(* C23: a directory move that surfaces only as delete(D1, is_directory)
   followed within the correlation window by create(D2/x) for a tracked file
   x that was under D1 is still detected: the create yields
   MoveEvent(D1/x, D2/x).  Stated at the create, the call before it being the
   stored directory delete, with no earlier trace of either file path. *)
C23_AsClaimed ==
    [][\A D1 \in Dirs, D2 \in Dirs, x \in Files :
          (/\ D1 # D2 /\ IsUnder(x, D2)
           /\ JoinPath(D1, RelativeTo(x, D2)) \in Files
           /\ last_call = <<"on_deleted", D1, TRUE>>
           /\ D1 \in Keys(pending_deletes)
           /\ now - pending_deletes[IndexOf(pending_deletes, D1)].timestamp_unix
                 <= Timeout
           /\ NoTrace(x) /\ NoTrace(JoinPath(D1, RelativeTo(x, D2)))
           /\ Called("on_created")
           /\ last_call' = <<"on_created", x, FALSE>>)
          => \E e \in Appended :
                 /\ e.old_path = JoinPath(D1, RelativeTo(x, D2))
                 /\ e.new_path = x]_vars

-----------------------------------------------------------------------------
(* the size stat() reported for p, 0 for a path it was not asked about *)
SizeOf(sz, p) == IF p \in DOMAIN sz THEN sz[p] ELSE 0

(* the match predicate of the pending-deletion scan as the specification
   words it *)
ScanPredicate(d, path, sz, t) ==
    /\ Lower(Suffix(d.path)) = Lower(Suffix(path))
    /\ t - d.timestamp_unix <= Timeout
    /\ \/ Name(d.path) = Name(path)
       \/ /\ SizeOf(sz, d.path) > 0
          /\ Abs(SizeOf(sz, d.path) - SizeOf(sz, path)) < SizeTolerance
       \/ SizeOf(sz, d.path) = 0

(* the create of `path` reaches the pending-deletion scan: it is not
   filtered, not marked as processed, and no chain move is found for it *)
ReachesScan(path, is_directory) ==
    LET dpf == DropExpiredMarkers(directory_processed_files, now)
    IN  /\ FilterRaises(<<path>>) = "none"
        /\ ~Dropped(path, is_directory)
        /\ ~RecentlyProcessed(dpf, path, now)
        /\ (is_directory
              \/ RecentLocations(dpf, move_events, path, now) = <<>>)

(* the pending deletes the step matched: those it removed although they had
   not expired *)
Matched ==
    Keys(DropExpired(pending_deletes, now, Timeout)) \ Keys(pending_deletes')

(* the step selected exactly the first entry among `hits` (positions of
   pending_deletes), or nothing when there is none: the entry is removed and
   any event appended starts at it *)
Selected(hits) ==
    IF hits = {}
    THEN Matched = {} /\ move_events' = move_events
    ELSE LET c == CHOOSE i \in hits : \A j \in hits : i <= j
         IN  /\ Matched = {pending_deletes[c].path}
             /\ \A e \in Appended :
                    /\ e.old_path = pending_deletes[c].path
                    /\ e.new_path = last_call'[2]

(* C24: the pending-deletion scan of on_create(path) selects the first entry
   in insertion order of the pending deletes that has the same extension as
   path, elapsed time <= the correlation window, and the same filename, or a
   size within 1KB of path's size, or a deletion size of zero; an entry
   failing the predicate is never matched. *)
C24_AsClaimed ==
    [][(/\ Called("on_created")
        /\ ReachesScan(last_call'[2], last_call'[3]))
       => Selected({i \in 1..Len(pending_deletes) :
                      ScanPredicate(pending_deletes[i], last_call'[2],
                                    last_call'[4], now)})]_vars

(* C24 as amended: the same, the scan passing over every entry whose path
   carries a valid processed marker. *)
C24_FirstUnmarkedMatch ==
    [][(/\ Called("on_created")
        /\ ReachesScan(last_call'[2], last_call'[3]))
       => Selected({i \in 1..Len(pending_deletes) :
                      /\ ScanPredicate(pending_deletes[i], last_call'[2],
                                       last_call'[4], now)
                      /\ ~RecentlyProcessed(directory_processed_files,
                                            pending_deletes[i].path, now)})]_vars

(* a create matched a pending delete of another filename by its size while
   an entry failing the predicate stayed pending *)
C24_Witness ==
    /\ last_call[1] = "on_created"
    /\ Len(move_events) > 0
    /\ LET e == move_events[Len(move_events)]
           sz == last_call[4]
       IN  /\ e.new_path = last_call[2]
           /\ e.correlated /\ ~e.chain_move
           /\ Name(e.old_path) # Name(e.new_path)
           /\ SizeOf(sz, e.old_path) = 1123
           /\ \E i \in 1..Len(pending_deletes) :
                 /\ SizeOf(sz, pending_deletes[i].path) = 1124
                 /\ Name(pending_deletes[i].path) # Name(e.new_path)

-----------------------------------------------------------------------------
(* some recorded directory move maps old to path: they are its two
   directories, or old lies under its old directory and path under its new
   directory at the same relative path *)
DirectoryExplained(old, path) ==
    \E i \in 1..Len(recent_directory_moves) :
        \/ /\ old = recent_directory_moves[i].path
           /\ path = recent_directory_moves[i].new_dir
        \/ /\ IsUnder(old, recent_directory_moves[i].path)
           /\ IsUnder(path, recent_directory_moves[i].new_dir)
           /\ RelativeTo(old, recent_directory_moves[i].path)
                = RelativeTo(path, recent_directory_moves[i].new_dir)

(* C25: a matched delete/create pair (old, path) is suppressed as
   directory-explained, the pending deletion removed and nothing emitted,
   exactly when some recorded directory move has old under its old directory
   and path under its new directory with equal relative suffixes; in every
   other case the match emits the correlated MoveEvent(old, path). *)
C25_AsClaimed ==
    [][\A old \in Keys(pending_deletes) :
          (/\ Called("on_created")
           /\ Matched = {old})
          => IF DirectoryExplained(old, last_call'[2])
             THEN move_events' = move_events
             ELSE /\ Len(move_events') = Len(move_events) + 1
                  /\ \E e \in Appended :
                        /\ e.old_path = old /\ e.new_path = last_call'[2]
                        /\ e.correlated /\ ~e.chain_move]_vars

-----------------------------------------------------------------------------
(* the path carries a marker written at time t *)
MarkedAt(dpf, path, t) ==
    \E j \in 1..Len(dpf) : dpf[j].path = path /\ dpf[j].ts = t

(* C26: when on_create emits a chain MoveEvent(P1, path), both P1 and path
   are recorded as processed with the current time, and the pending deletes
   are left as the expiry sweep of the call left them. *)
C26_AsClaimed ==
    [][\A e \in Appended :
          (Called("on_created") /\ e.chain_move)
          => /\ MarkedAt(directory_processed_files', e.old_path, now)
             /\ MarkedAt(directory_processed_files', e.new_path, now)
             /\ pending_deletes' = DropExpired(pending_deletes, now, Timeout)]_vars

-----------------------------------------------------------------------------
(* position in the history of the most recently emitted event whose new path
   has the filename of `path`, 0 when there is none *)
LatestOfName(path) ==
    LET same == {k \in 1..Len(move_events) :
                    Name(move_events[k].new_path) = Name(path)}
    IN  IF same = {} THEN 0 ELSE CHOOSE k \in same : \A j \in same : j <= k

(* C27: the old path of every chain MoveEvent is the new path of a previously
   emitted MoveEvent with the same filename, the most recently emitted one
   when several qualify; after a directory move D1->D2 of file x followed by
   create(D3/x) the chain event is MoveEvent(D2/x, D3/x), never one starting
   at the stale location D1/x. *)
C27_AsClaimed ==
    [][\A e \in Appended :
          (Called("on_created") /\ e.chain_move)
          => /\ LatestOfName(e.new_path) # 0
             /\ e.old_path
                  = move_events[LatestOfName(e.new_path)].new_path]_vars

-----------------------------------------------------------------------------
(* the newest half of the table, in insertion order *)
NewestHalf(rdm) == SubSeq(rdm, (Len(rdm) \div 2) + 1, Len(rdm))

(* C28: the table of recorded directory moves is bounded.  A directory move
   notification that finds at most 10 entries leaves at most 10 when
   on_moved returns, so the table never holds more from construction on;
   and the expiry sweep of a delete or create over a table above the
   20-entry cap removes the oldest half in insertion order. *)
C28_TableBounded ==
    [][/\ (Called("on_moved") /\ Len(recent_directory_moves) <= DirMovesCap)
          => Len(recent_directory_moves') <= DirMovesCap
       /\ (/\ Called("on_deleted") \/ Called("on_created")
           /\ ~Filtered(last_call'[2], last_call'[3])
           /\ Len(recent_directory_moves) > DirMovesSweepCap)
          => recent_directory_moves' = NewestHalf(recent_directory_moves)]_vars

(* on_moved has recorded an eleventh directory move and trimmed the table *)
C28_Witness ==
    /\ last_call[1] = "on_moved" /\ last_call[4]
    /\ Len(recent_directory_moves) = (DirMovesCap + 1) - (DirMovesCap + 1) \div 2
    /\ recent_directory_moves[Len(recent_directory_moves)].path = last_call[2]
    /\ recent_directory_moves[1] = EarlierMoves(DirMovesCap)[DirMovesCap \div 2 + 1]

-----------------------------------------------------------------------------
(* the entries of a table *)
Entries(d) == {d[i] : i \in 1..Len(d)}

(* C29: when an unfiltered delete or create notification is correlated, the
   pending deletes and pending creates hold no entry older than the
   correlation window and the processed markers none older than three
   windows, while every entry younger than its limit is retained by the
   sweep: it is still in its table unless the correlation of this very
   notification replaced it (same path) or matched it. *)
C29_ExpirySweep ==
    [][(/\ Called("on_deleted") \/ Called("on_created")
        /\ ~Filtered(last_call'[2], last_call'[3]))
       => /\ \A r \in Entries(pending_deletes') \cup Entries(pending_creates') :
                now - r.timestamp_unix <= Timeout
          /\ \A m \in Entries(directory_processed_files') :
                now - m.ts <= 3 * Timeout
          /\ \A r \in Entries(pending_deletes) :
                (/\ now - r.timestamp_unix < Timeout
                 /\ r.path # last_call'[2] /\ r.path \notin Matched)
                => r \in Entries(pending_deletes')
          /\ \A r \in Entries(pending_creates) :
                (now - r.timestamp_unix < Timeout /\ r.path # last_call'[2])
                => r \in Entries(pending_creates')
          /\ \A m \in Entries(directory_processed_files) :
                now - m.ts < 3 * Timeout
                => m \in Entries(directory_processed_files')]_vars

(* a delete handled more than three windows after a directory move: the
   markers written with the move's event are gone, the delete is pending *)
C29_Witness ==
    /\ calls = 2
    /\ last_call[1] = "on_deleted"
    /\ move_events # <<>>
    /\ now - move_events[1].timestamp > 3 * Timeout
    /\ directory_processed_files = <<>>
    /\ Keys(pending_deletes) = {last_call[2]}

-----------------------------------------------------------------------------
(* C30: record_creation never reports a move from a recent deletion recorded
   more than the index's correlation window (10 s) earlier: when the file
   created has a recent deletion of its size, modification time and name,
   the deletion reported as its old path is no older than the window. *)
C30_AsClaimed ==
    [][(/\ Called("record_creation")
        /\ Exists(index.disk, last_call'[2])
        /\ DeletionsOf(Stat(index.disk, last_call'[2])) # {}
        /\ flushed' # <<>>
        /\ flushed'[1] # last_call'[2])
       => LET old_path == flushed'[1]
              deleted == index.recent_deletions[
                             IndexOf(index.recent_deletions, old_path)]
          IN  now - deleted.ts <= CorrelationWindow]_vars

-----------------------------------------------------------------------------
(* C31: when a rescan meets an I/O error, the snapshot that was current
   before the scan stays in place unchanged, the recent deletions and recent
   creations are unchanged, and nothing is raised to the caller.  Stated at
   the step that ends a rescan during which stat() failed, no other call
   having been made since it began. *)
C31_AsClaimed ==
    [][(/\ index.built
        /\ index.main.pos = "swap" /\ index'.main.pos = "idle"
        /\ last_call[1] = "rescan" /\ Len(last_call) = 2)
       => /\ index'.current_files = index.current_files
          /\ index'.recent_deletions = index.recent_deletions
          /\ index'.recent_creations = index.recent_creations
          /\ raised' = "none"]_vars

-----------------------------------------------------------------------------
(* C32: after a successful rescan() the snapshot is exactly the set of
   trackable files on the disk that do not lie under an ignored directory,
   trackable being the PathFilter rule of should_track_file.
   Stated at the step that ends a rescan, the disk unchanged and no other
   call made since the walk. *)
C32_AsClaimed ==
    [][(/\ index.built
        /\ index.main.pos = "swap" /\ index'.main.pos = "idle"
        /\ last_call = <<"rescan">>
        /\ index.main.seen = index.fs_ops)
       => Keys(index'.current_files)
            = {f.path : f \in {g \in index.disk :
                                  /\ should_track_file(g.path)
                                  /\ Descended(Parent(g.path))}}]_vars

-----------------------------------------------------------------------------
(* the path has been the new_path of an event recorded after the i-th *)
ReappearedSince(p, i) ==
    \E k \in (i + 1)..Len(move_events) : move_events[k].new_path = p

(* C33: no delete is explained twice: once a MoveEvent with old_path = A
   has been emitted, no later MoveEvent with old_path = A is emitted unless A
   has reappeared since, as the new_path of an event or through a new create
   or delete of A.  Stated for the create that follows the first call of a
   run, where the create itself is the only notification made since the
   earlier event and it is about another path. *)
C33_AsClaimed ==
    [][(/\ calls = 1
        /\ Called("on_created")
        /\ Len(move_events') > Len(move_events))
       => \A e \in Appended : \A i \in 1..Len(move_events) :
             (/\ move_events[i].old_path = e.old_path
              /\ last_call'[2] # e.old_path
              /\ ~ReappearedSince(e.old_path, i))
             => FALSE]_vars

-----------------------------------------------------------------------------
(* C34: a create(path) for which there is no pending deletion and no recent
   event or marker with the same filename, arriving while other move
   activity is recent, emits one chain MoveEvent to path from the location
   of another file with the same filename.  The other activity is a direct
   file move to another filename, no directory move being on record, and
   the other file is one that no event has touched. *)
C34_AsClaimed ==
    [][\A path \in Files :
         (/\ Called("on_created")
          /\ last_call' = <<"on_created", path, FALSE>>
          /\ pending_deletes = <<>>
          /\ ~ChainCandidate(path)
          /\ recent_directory_moves = <<>>
          /\ \E e \in EventSet : now - e.timestamp < 2 * Timeout
          /\ \A e \in EventSet : Name(e.new_path) # Name(path)
          /\ \E f \in Files :
                /\ f # path /\ Name(f) = Name(path)
                /\ \A e \in EventSet : e.old_path # f /\ e.new_path # f)
         => \E e \in Appended :
               /\ e.chain_move
               /\ e.new_path = path
               /\ e.old_path # path
               /\ Name(e.old_path) = Name(path)]_vars

-----------------------------------------------------------------------------
(* C35: record_creation never returns a pair whose old_path equals its
   new_path: a file deleted and created again at the same path is not
   reported as a move onto itself. *)
C35_AsClaimed ==
    [][(Called("record_creation") /\ flushed' # <<>>)
       => flushed'[1] # flushed'[2]]_vars

-----------------------------------------------------------------------------
(* the background rescan loops that have not exited *)
RunningLoops == {i \in 1..Len(index.loops) : index.loops[i].pos # "exited"}

(* C36: at most one background rescan loop of a FileIndex is running at any
   time, whatever the sequence of start() and stop() calls. *)
C36_AsClaimed == index.built => Cardinality(RunningLoops) <= 1

-----------------------------------------------------------------------------
(* C37: a correlated MoveEvent pairs notifications of the same object kind:
   the pending deletion that a create is matched with is a directory
   deletion exactly when the create is a directory create. *)
C37_AsClaimed ==
    [][Called("on_created")
       => \A e \in Appended :
             (e.correlated /\ ~e.chain_move)
             => pending_deletes[IndexOf(pending_deletes, e.old_path)].is_directory
                   = last_call'[3]]_vars

-----------------------------------------------------------------------------
(* C38: every call of on_moved, on_deleted, on_created and
   flush_pending_events terminates with the correlation lock released: no
   thread acquires the lock while holding it, and every call that has been
   entered returns, holding nothing. *)
C38_LockReleased ==
    /\ [](\A t \in Threads :
             threads[t].holds
             => threads[t].todo # <<>> /\ Head(threads[t].todo) # Acquire)
    /\ \A t \in Threads :
          (threads[t].pos = "running")
          ~> (threads[t].pos = "done" /\ ~threads[t].holds)

(* both threads have returned from calls that took the lock, one of them a
   create matched with the other's delete *)
C38_Witness ==
    /\ \A t \in Threads : threads[t].pos = "done" /\ ~threads[t].holds
    /\ threads[1].call[1] = "on_deleted"
    /\ threads[2].call[1] = "on_created"
    /\ \E e \in EventSet : e.correlated

-----------------------------------------------------------------------------
(* C39: directory-move dedup applies only to paths that lie inside the
   recorded directories: a direct file move whose source and destination
   begin with the strings of a recorded old_dir and new_dir, without the
   source lying inside old_dir and the destination inside new_dir for any
   record, is not suppressed and appends its MoveEvent. *)
C39_AsClaimed ==
    [][\A src \in Files : \A dest \in Files :
         (/\ Called("on_moved")
          /\ last_call' = <<"on_moved", src, dest, FALSE>>
          /\ ~Filtered(src, FALSE) /\ ~Filtered(dest, FALSE)
          /\ \E i \in 1..Len(recent_directory_moves) :
                /\ StartsWith(src, recent_directory_moves[i].path)
                /\ StartsWith(dest, recent_directory_moves[i].new_dir)
          /\ \A i \in 1..Len(recent_directory_moves) :
                ~(/\ IsUnder(src, recent_directory_moves[i].path)
                  /\ IsUnder(dest, recent_directory_moves[i].new_dir)))
         => move_events' =
               Append(move_events,
                      MoveRec(DirectMoveType(src, dest), src, dest,
                              FALSE, FALSE, FALSE, now))]_vars

-----------------------------------------------------------------------------
(* C40: record_creation(path) on a path that cannot be stat-ed returns no
   match, raises nothing, and leaves the snapshot, the recent deletions and
   the recent creations unchanged. *)
C40_StatFailure ==
    [][(Called("record_creation") /\ ~Exists(index.disk, last_call'[2]))
       => /\ flushed' = <<>>
          /\ raised' = "none"
          /\ index'.current_files = index.current_files
          /\ index'.recent_deletions = index.recent_deletions
          /\ index'.recent_creations = index.recent_creations]_vars

(* record_creation has just been called on a path that is neither on the
   disk nor tracked, with a recent deletion on record *)
C40_Witness ==
    /\ index.built
    /\ last_call[1] = "record_creation"
    /\ ~Exists(index.disk, last_call[2])
    /\ last_call[2] \notin Keys(index.current_files)
    /\ last_call[2] \notin Keys(index.recent_creations)
    /\ index.recent_deletions # <<>>
    /\ index.main.pos = "idle"

=============================================================================
